---- MODULE Spec2Model ----
(***************************************************************************)
(* Reward / yield accounting of the TWIST on-chain programs:               *)
(*   - bond-pool-factory : BondPool / BondPosition (share accumulator and  *)
(*     Q64.64 yield integral), instructions stake_in_pool, distribute_yield,*)
(*     claim_rewards, withdraw_stake, set_pool_paused                      *)
(*   - influencer-staking : StakingPool / StakeAccount, instructions       *)
(*     stake_on_influencer, unstake, distribute_rewards, claim_rewards     *)
(*                                                                         *)
(* u32 / u64 / u128 quantities are exact natural numbers, written as       *)
(* little-endian digit sequences in base Radix with no leading zero digit  *)
(* (the empty sequence is 0), so that 10^12 and 2^64 scaled products are   *)
(* computed exactly as the Rust code computes them.                        *)
(***************************************************************************)
EXTENDS Integers, Sequences, FiniteSets, TLC

----------------------------------------------------------------------------
(* Exact natural-number arithmetic.                                        *)

Radix == 100 * 100

RECURSIVE N(_)
N(i) == IF i = 0 THEN <<>> ELSE <<i % Radix>> \o N(i \div Radix)

RECURSIVE Norm(_)
Norm(s) ==
    IF s = <<>> THEN <<>>
    ELSE IF s[Len(s)] = 0 THEN Norm(SubSeq(s, 1, Len(s) - 1))
    ELSE s

RECURSIVE CmpFrom(_, _, _)
CmpFrom(a, b, i) ==
    IF i = 0 THEN 0
    ELSE IF a[i] < b[i] THEN -1
    ELSE IF a[i] > b[i] THEN 1
    ELSE CmpFrom(a, b, i - 1)

Cmp(a, b) ==
    IF Len(a) < Len(b) THEN -1
    ELSE IF Len(a) > Len(b) THEN 1
    ELSE CmpFrom(a, b, Len(a))

Lt(a, b) == Cmp(a, b) < 0
Le(a, b) == Cmp(a, b) <= 0
Gt(a, b) == Cmp(a, b) > 0
Ge(a, b) == Cmp(a, b) >= 0
IsZero(a) == a = <<>>
Max(a, b) == IF Ge(a, b) THEN a ELSE b

RECURSIVE AddC(_, _, _)
AddC(a, b, c) ==
    IF a = <<>> /\ b = <<>> THEN (IF c = 0 THEN <<>> ELSE <<c>>)
    ELSE LET x == IF a = <<>> THEN 0 ELSE Head(a)
             y == IF b = <<>> THEN 0 ELSE Head(b)
             s == x + y + c
         IN  <<s % Radix>> \o AddC(IF a = <<>> THEN <<>> ELSE Tail(a),
                                   IF b = <<>> THEN <<>> ELSE Tail(b),
                                   s \div Radix)

Add(a, b) == AddC(a, b, 0)

RECURSIVE SubB(_, _, _)
SubB(a, b, c) ==
    IF a = <<>> THEN <<>>
    ELSE LET y == IF b = <<>> THEN 0 ELSE Head(b)
             d == Head(a) - y - c
         IN  <<d % Radix>> \o SubB(Tail(a),
                                   IF b = <<>> THEN <<>> ELSE Tail(b),
                                   IF d < 0 THEN 1 ELSE 0)

\* a - b for a >= b
Sub(a, b) == Norm(SubB(a, b, 0))

RECURSIVE MulDigitC(_, _, _)
MulDigitC(a, m, c) ==
    IF a = <<>> THEN (IF c = 0 THEN <<>> ELSE <<c>>)
    ELSE LET p == Head(a) * m + c
         IN  <<p % Radix>> \o MulDigitC(Tail(a), m, p \div Radix)

\* a * m for a digit 0 <= m < Radix
MulDigit(a, m) == IF m = 0 THEN <<>> ELSE MulDigitC(a, m, 0)

ShiftUp(a) == IF a = <<>> THEN <<>> ELSE <<0>> \o a

RECURSIVE Mul(_, _)
Mul(a, b) ==
    IF a = <<>> \/ b = <<>> THEN <<>>
    ELSE Add(MulDigit(a, Head(b)), ShiftUp(Mul(a, Tail(b))))

\* largest q in lo..hi with q * b <= r   (lo * b <= r is given)
RECURSIVE QuotDigit(_, _, _, _)
QuotDigit(r, b, lo, hi) ==
    IF lo = hi THEN lo
    ELSE LET mid == (lo + hi + 1) \div 2
         IN  IF Le(MulDigit(b, mid), r) THEN QuotDigit(r, b, mid, hi)
             ELSE QuotDigit(r, b, lo, mid - 1)

\* long division of a by b > 0, digits of a taken from the most significant
RECURSIVE DivStep(_, _, _, _, _)
DivStep(a, b, i, q, r) ==
    IF i = 0 THEN [quot |-> Norm(q), rem |-> r]
    ELSE LET r1 == Norm(<<a[i]>> \o r)
             n  == Len(b)
             top == IF Len(r1) > n THEN r1[n + 1] * Radix + r1[n] ELSE r1[n]
             lo == top \div (b[n] + 1)
             hi == top \div b[n]
             d  == IF Lt(r1, b) THEN 0
                   ELSE QuotDigit(r1, b, IF lo < 1 THEN 1 ELSE lo,
                                  IF hi > Radix - 1 THEN Radix - 1 ELSE hi)
         IN  DivStep(a, b, i - 1, <<d>> \o q, Sub(r1, MulDigit(b, d)))

Div(a, b) == DivStep(a, b, Len(a), <<>>, <<>>).quot
Mod(a, b) == DivStep(a, b, Len(a), <<>>, <<>>).rem

----------------------------------------------------------------------------
(* Integer widths and fixed-point scales.                                  *)

U32_MODULUS == Mul(N(65536), N(65536))
U64_MODULUS == Mul(U32_MODULUS, U32_MODULUS)
U128_MODULUS == Mul(U64_MODULUS, U64_MODULUS)

FitsU32(a) == Lt(a, U32_MODULUS)
FitsU64(a) == Lt(a, U64_MODULUS)
FitsU128(a) == Lt(a, U128_MODULUS)

\* `x as u64` on a u128
AsU64(a) == IF FitsU64(a) THEN a ELSE Mod(a, U64_MODULUS)

\* utils::PRECISION, 1e12
PRECISION == Mul(N(1000000), N(1000000))

\* `1 << 64`, the Q64 scaling of the yield integral
Q64 == U64_MODULUS

BPS_DENOMINATOR == N(10000)

----------------------------------------------------------------------------
(* Bounds and inputs of the bond pool model.                               *)

NumStakers == 2
VisitorFunds == 13

Stakers == 1..NumStakers

GenesisTime == 1700000000
\* 30 days, the shortest lock a factory accepts
MinBondDuration == 30 * 24 * 60 * 60
\* the Clock::get() readings transactions see: when the pool opens and when
\* the first lock ends
ClockReadings == {GenesisTime, GenesisTime + MinBondDuration}

\* 1 TWIST (9 decimals), the smallest min_stake_amount create_bond_pool accepts
ONE_TWIST == N(1000000000)

\* staker s starts with 1 TWIST plus s base units
StakerFunds(s) == Add(ONE_TWIST, N(s))
BurnAmounts == {N(7), N(12)}
PartialShares == N(400000000)

----------------------------------------------------------------------------
(* Bond pool factory: state.                                               *)

VARIABLES factory_state, bond_pool, bond_position,
          staker_twist_account, pool_twist_vault, pool_sector_token_account,
          burn_source, clock

bvars == <<factory_state, bond_pool, bond_position, staker_twist_account,
           pool_twist_vault, pool_sector_token_account, burn_source, clock>>

\* influencer staking accounts: the StakingPool, the StakeAccount of each
\* staker, the stakers' token accounts, the vault and the rewards treasury
VARIABLES staking_pool, stake_account, staker_tokens, vault, rewards_treasury

ivars == <<staking_pool, stake_account, staker_tokens, vault, rewards_treasury>>

\* bond pool factory, early_unwrap: the users' sector token accounts
VARIABLES user_sector_token_account

\* twist-token accounts: the ProgramState, the StakeState of each owner, the
\* owners' token accounts, the stake vault, the floor treasury vault, the
\* mint's supply, the CircuitBreakerState and the Clock sysvar
VARIABLES program_state, stake_state, owner_token_account, stake_vault,
          floor_treasury_vault, mint_supply, circuit_breaker, unix_timestamp

tvars == <<program_state, stake_state, owner_token_account, stake_vault,
           floor_treasury_vault, mint_supply, circuit_breaker, unix_timestamp>>

\* twist-token PID supply control: the PIDControllerState and the Result of the
\* last execute_pid_control
VARIABLES pid_controller, execute_result

pvars == <<pid_controller, execute_result>>

\* twist-token multisig: the MultisigConfig, the MultisigTransaction of each
\* transaction_index, and how often each transaction's instruction has been
\* invoked through execute_transaction
VARIABLES multisig_config, multisig_transaction, invoked

\* twist-token vesting: the VestingSchedule and the vesting vault of each
\* beneficiary, the beneficiaries' token accounts and the authority's
VARIABLES vesting_schedule, vesting_vault, beneficiary_token_account,
          authority_token_account

\* vau-processor: the VAUProcessorState and the WebsiteRegistry of the site
VARIABLES vau_processor, website

gvars == <<multisig_config, multisig_transaction, invoked, vesting_schedule,
           vesting_vault, beneficiary_token_account, authority_token_account,
           vau_processor, website>>

vars == <<bvars, ivars, user_sector_token_account, tvars, pvars, gvars>>

\* the accounts no bond pool instruction other than early_unwrap is given
outside_bond == <<ivars, user_sector_token_account, tvars, pvars, gvars>>

\* the accounts no influencer staking instruction is given
outside_influencer == <<bvars, user_sector_token_account, tvars, pvars, gvars>>

\* the accounts no twist-token staking, admin or circuit-breaker instruction
\* is given
outside_token == <<bvars, ivars, user_sector_token_account, pvars, gvars>>

\* the accounts no twist-token PID instruction is given
outside_pid == <<bvars, ivars, user_sector_token_account, gvars>>

\* FactoryState after initialize_factory
FactoryInit ==
    [ total_value_locked |-> <<>>,
      current_tvl |-> <<>>,
      total_burned_from_yield |-> <<>>,
      total_distributed_to_stakers |-> <<>>,
      burn_percentage_bps |-> 9000,
      yield_percentage_bps |-> 1000,
      early_unwrap_penalty_bps |-> 30,
      paused |-> FALSE ]

\* BondPool after create_bond_pool
PoolInit ==
    [ min_stake_amount |-> ONE_TWIST,
      max_stake_amount |-> <<>>,
      lock_duration |-> MinBondDuration,
      total_staked |-> <<>>,
      total_shares |-> <<>>,
      total_yield_accumulated |-> <<>>,
      total_yield_burned |-> <<>>,
      total_yield_distributed |-> <<>>,
      reward_per_share |-> <<>>,
      yield_integral |-> <<>>,
      active |-> TRUE,
      finalized |-> FALSE,
      paused |-> FALSE,
      staker_count |-> <<>> ]

BondInit ==
    /\ factory_state = FactoryInit
    /\ bond_pool = PoolInit
    /\ bond_position = << >>
    /\ staker_twist_account = [s \in Stakers |-> StakerFunds(s)]
    /\ pool_twist_vault = <<>>
    /\ pool_sector_token_account = <<>>
    /\ burn_source = N(VisitorFunds)
    /\ clock = GenesisTime

HasPosition(s) == s \in DOMAIN bond_position

----------------------------------------------------------------------------
(* Bond pool factory: reward formulas.                                     *)

\* BondPool::calculate_pending_rewards: a failed checked_mul, checked_div or
\* checked_sub is replaced by 0
calculate_pending_rewards(pool, shares, reward_debt) ==
    LET product == Mul(shares, pool.reward_per_share)
        accumulated == IF FitsU128(product) THEN Div(product, PRECISION) ELSE <<>>
    IN  IF Ge(accumulated, reward_debt)
        THEN AsU64(Sub(accumulated, reward_debt))
        ELSE <<>>

\* claim_rewards::calculate_pending_rewards_integral; "MathOverflow" on a
\* failed checked operation
calculate_pending_rewards_integral(position, pool) ==
    IF Lt(pool.yield_integral, position.claimed_cursor) THEN "MathOverflow"
    ELSE LET yield_delta == Sub(pool.yield_integral, position.claimed_cursor)
             product == Mul(yield_delta, position.amount_staked)
         IN  IF ~FitsU128(product) THEN "MathOverflow"
             ELSE AsU64(Div(product, Q64))

\* shares * reward_per_share / PRECISION with checked_mul
RewardDebtOf(shares, pool) == Div(Mul(shares, pool.reward_per_share), PRECISION)
RewardDebtFits(shares, pool) == FitsU128(Mul(shares, pool.reward_per_share))

----------------------------------------------------------------------------
(* Bond pool factory: instructions.  A failed instruction commits nothing: *)
(* the step leaves every variable unchanged.                               *)

BondFrame ==
    UNCHANGED <<factory_state, bond_pool, bond_position, staker_twist_account,
                pool_twist_vault, pool_sector_token_account, burn_source, clock>>

\* shares minted by stake_in_pool for `amount`
StakeShares(pool, amount) ==
    IF IsZero(pool.total_shares) THEN amount
    ELSE AsU64(Div(Mul(amount, pool.total_shares), pool.total_staked))

StakeResult(s, amount) ==
    IF HasPosition(s) THEN "AccountAlreadyInUse"
    ELSE IF ~(bond_pool.active /\ ~bond_pool.finalized /\ ~bond_pool.paused)
        THEN "PoolNotActive"
    ELSE IF factory_state.paused THEN "FactoryPaused"
    ELSE IF Lt(amount, bond_pool.min_stake_amount) THEN "StakeBelowMinimum"
    ELSE IF ~IsZero(bond_pool.max_stake_amount) /\ Gt(amount, bond_pool.max_stake_amount)
        THEN "StakeAboveMaximum"
    ELSE IF ~IsZero(bond_pool.total_shares) /\ IsZero(bond_pool.total_staked)
        THEN "MathOverflow"
    ELSE IF Lt(staker_twist_account[s], amount) THEN "InsufficientFunds"
    ELSE IF ~RewardDebtFits(StakeShares(bond_pool, amount), bond_pool)
        THEN "MathOverflow"
    ELSE IF ~FitsU64(Add(bond_pool.total_staked, amount))
            \/ ~FitsU64(Add(bond_pool.total_shares, StakeShares(bond_pool, amount)))
            \/ ~FitsU64(Add(factory_state.current_tvl, amount))
        THEN "MathOverflow"
    ELSE "Ok"

\* a position opened without the reward_debt and claimed_cursor checkpoints
NewPositionFromZero(amount, shares, pool, now) ==
    [ amount_staked |-> amount,
      shares |-> shares,
      stake_timestamp |-> now,
      unlock_timestamp |-> now + pool.lock_duration,
      reward_debt |-> <<>>,
      rewards_claimed |-> <<>>,
      claimed_cursor |-> <<>> ]

\* the BondPosition stake_in_pool initialises
NewPosition(amount, shares, pool, now) ==
    [ amount_staked |-> amount,
      shares |-> shares,
      stake_timestamp |-> now,
      unlock_timestamp |-> now + pool.lock_duration,
      reward_debt |-> RewardDebtOf(shares, pool),
      rewards_claimed |-> <<>>,
      claimed_cursor |-> pool.yield_integral ]

stake_in_pool(s, amount) ==
    /\ UNCHANGED outside_bond
    /\ LET result == StakeResult(s, amount)
               shares == StakeShares(bond_pool, amount)
               position == NewPosition(amount, shares, bond_pool, clock)
           IN  IF result = "Ok"
               THEN /\ staker_twist_account' =
                           [staker_twist_account EXCEPT ![s] = Sub(@, amount)]
                    /\ pool_twist_vault' = Add(pool_twist_vault, amount)
                    /\ pool_sector_token_account' = Add(pool_sector_token_account, amount)
                    /\ bond_position' = (s :> position) @@ bond_position
                    /\ bond_pool' = [bond_pool EXCEPT
                           !.total_staked = Add(@, amount),
                           !.total_shares = Add(@, shares),
                           !.staker_count = Add(@, N(1))]
                    /\ factory_state' = [factory_state EXCEPT
                           !.current_tvl = Add(@, amount),
                           !.total_value_locked = Add(@, amount)]
                    /\ UNCHANGED <<burn_source, clock>>
               ELSE /\ BondFrame

\* 90/10 split of distribute_yield
BurnPortion(burn_amount, burn_percentage_bps) ==
    AsU64(Div(Mul(burn_amount, N(burn_percentage_bps)), BPS_DENOMINATOR))

\* the staker portion computed from its own percentage, rounded down
StakerPortionByBps(burn_amount, burn_percentage_bps) ==
    AsU64(Div(Mul(burn_amount, N(10000 - burn_percentage_bps)), BPS_DENOMINATOR))

StakerPortion(burn_amount, burn_percentage_bps) ==
    Sub(burn_amount, BurnPortion(burn_amount, burn_percentage_bps))

\* the staker portion spread over the number of stakers, not over the shares
RewardIncrementPerStaker(staker_portion, pool) ==
    Div(Mul(staker_portion, PRECISION), pool.staker_count)

\* growth of reward_per_share for `staker_portion`
RewardIncrement(staker_portion, pool) ==
    Div(Mul(staker_portion, PRECISION), pool.total_shares)

\* growth of yield_integral for `staker_portion`
YieldDelta(staker_portion, pool) ==
    Div(Mul(staker_portion, Q64), pool.total_staked)

\* a pool whose accumulators are set to the increments of the latest
\* distribution
AccumulatedFromZero(pool, reward_increment, yield_delta) ==
    [pool EXCEPT !.reward_per_share = reward_increment,
                 !.yield_integral = yield_delta]

\* the pool after `reward_per_share += reward_increment` and
\* `yield_integral += yield_delta`
Accumulated(pool, reward_increment, yield_delta) ==
    [pool EXCEPT !.reward_per_share = Add(@, reward_increment),
                 !.yield_integral = Add(@, yield_delta)]

DistributeResult(burn_amount) ==
    IF IsZero(bond_pool.total_shares) THEN "NoStakers"
    ELSE IF bond_pool.paused THEN "PoolPaused"
    ELSE IF Gt(BurnPortion(burn_amount, factory_state.burn_percentage_bps), burn_amount)
        THEN "MathOverflow"
    ELSE IF Lt(burn_source, BurnPortion(burn_amount, factory_state.burn_percentage_bps))
        THEN "InsufficientFunds"
    ELSE IF IsZero(bond_pool.total_staked) THEN "MathOverflow"
    ELSE IF ~FitsU128(Add(bond_pool.reward_per_share,
                RewardIncrement(StakerPortion(burn_amount,
                    factory_state.burn_percentage_bps), bond_pool)))
            \/ ~FitsU128(Add(bond_pool.yield_integral,
                YieldDelta(StakerPortion(burn_amount,
                    factory_state.burn_percentage_bps), bond_pool)))
        THEN "MathOverflow"
    ELSE "Ok"

distribute_yield(burn_amount) ==
    /\ UNCHANGED outside_bond
    /\ LET result == DistributeResult(burn_amount)
               burn_portion == BurnPortion(burn_amount, factory_state.burn_percentage_bps)
               staker_portion == StakerPortion(burn_amount, factory_state.burn_percentage_bps)
               reward_increment == RewardIncrement(staker_portion, bond_pool)
               yield_delta == YieldDelta(staker_portion, bond_pool)
           IN  IF result = "Ok"
               THEN /\ burn_source' = Sub(burn_source, burn_portion)
                    /\ bond_pool' = [Accumulated(bond_pool, reward_increment, yield_delta)
                                      EXCEPT
                           !.total_yield_accumulated = Add(@, burn_amount),
                           !.total_yield_burned = Add(@, burn_portion),
                           !.total_yield_distributed = Add(@, staker_portion)]
                    /\ factory_state' = [factory_state EXCEPT
                           !.total_burned_from_yield = Add(@, burn_portion),
                           !.total_distributed_to_stakers = Add(@, staker_portion)]
                    /\ UNCHANGED <<bond_position, staker_twist_account, pool_twist_vault,
                                   pool_sector_token_account, clock>>
               ELSE /\ BondFrame

\* the amount claim_rewards pays: the larger of the two methods
ClaimPending(position, pool) ==
    Max(calculate_pending_rewards_integral(position, pool),
        calculate_pending_rewards(pool, position.shares, position.reward_debt))

\* a claim that records the payment but leaves the checkpoints where they were
ClaimedPositionNoCheckpoint(position, pool, pending) ==
    [position EXCEPT !.rewards_claimed = Add(@, pending)]

\* the BondPosition after a claim that paid `pending`
ClaimedPosition(position, pool, pending) ==
    [position EXCEPT
        !.reward_debt = RewardDebtOf(position.shares, pool),
        !.claimed_cursor = pool.yield_integral,
        !.rewards_claimed = Add(@, pending)]

ClaimResult(s) ==
    IF ~HasPosition(s) THEN "AccountNotInitialized"
    ELSE IF calculate_pending_rewards_integral(bond_position[s], bond_pool) = "MathOverflow"
        THEN "MathOverflow"
    ELSE IF IsZero(ClaimPending(bond_position[s], bond_pool)) THEN "Ok"
    ELSE IF Lt(pool_twist_vault, ClaimPending(bond_position[s], bond_pool))
        THEN "InsufficientFunds"
    ELSE IF ~RewardDebtFits(bond_position[s].shares, bond_pool)
            \/ ~FitsU64(Add(bond_position[s].rewards_claimed,
                            ClaimPending(bond_position[s], bond_pool)))
        THEN "MathOverflow"
    ELSE "Ok"

claim_rewards(s) ==
    /\ UNCHANGED outside_bond
    /\ LET result == ClaimResult(s)
           IN  IF result = "Ok"
               THEN LET pending == ClaimPending(bond_position[s], bond_pool)
                    IN  IF IsZero(pending)
                        THEN /\ BondFrame
                        ELSE /\ pool_twist_vault' = Sub(pool_twist_vault, pending)
                             /\ staker_twist_account' =
                                   [staker_twist_account EXCEPT ![s] = Add(@, pending)]
                             /\ bond_position' = [bond_position EXCEPT ![s] =
                                   ClaimedPosition(@, bond_pool, pending)]
                             /\ UNCHANGED <<factory_state, bond_pool,
                                            pool_sector_token_account, burn_source, clock>>
               ELSE /\ BondFrame

\* a position that can be withdrawn from the moment it is staked
can_withdraw_once_staked(position, current_timestamp) ==
    current_timestamp >= position.stake_timestamp

\* BondPosition::can_withdraw
can_withdraw(position, current_timestamp) ==
    current_timestamp >= position.unlock_timestamp

\* the amount returned comes out one unit short
AmountToReturnShort(pool, shares_to_withdraw) ==
    Sub(AsU64(Div(Mul(shares_to_withdraw, pool.total_staked), pool.total_shares)), N(1))

\* TWIST returned by withdraw_stake for `shares_to_withdraw`
AmountToReturn(pool, shares_to_withdraw) ==
    AsU64(Div(Mul(shares_to_withdraw, pool.total_staked), pool.total_shares))

\* withdraw_stake::claim_rewards_internal pays the share-method pending only
WithdrawPending(s) ==
    calculate_pending_rewards(bond_pool, bond_position[s].shares,
                              bond_position[s].reward_debt)

WithdrawResult(s, shares_to_withdraw) ==
    IF ~HasPosition(s) THEN "AccountNotInitialized"
    ELSE IF ~can_withdraw(bond_position[s], clock) THEN "StillLocked"
    ELSE IF Gt(shares_to_withdraw, bond_position[s].shares) THEN "InsufficientShares"
    ELSE IF Lt(pool_twist_vault, WithdrawPending(s)) THEN "InsufficientFunds"
    ELSE IF IsZero(bond_pool.total_shares) THEN "MathOverflow"
    ELSE IF Lt(Sub(pool_twist_vault, WithdrawPending(s)),
               AmountToReturn(bond_pool, shares_to_withdraw))
        THEN "InsufficientFunds"
    ELSE IF Lt(pool_sector_token_account, AmountToReturn(bond_pool, shares_to_withdraw))
        THEN "InsufficientFunds"
    ELSE IF Lt(bond_pool.total_shares, shares_to_withdraw)
            \/ Lt(bond_pool.total_staked, AmountToReturn(bond_pool, shares_to_withdraw))
            \/ Lt(factory_state.current_tvl, AmountToReturn(bond_pool, shares_to_withdraw))
        THEN "MathOverflow"
    ELSE "Ok"

\* the bond_position account carries `close = withdrawer`: a successful
\* instruction closes it, whatever shares_to_withdraw was
withdraw_stake(s, shares_to_withdraw) ==
    /\ UNCHANGED outside_bond
    /\ LET result == WithdrawResult(s, shares_to_withdraw)
           IN  IF result = "Ok"
               THEN LET position == bond_position[s]
                        withdrawing_all == shares_to_withdraw = position.shares
                        pending == WithdrawPending(s)
                        amount_to_return == AmountToReturn(bond_pool, shares_to_withdraw)
                    IN  /\ pool_twist_vault' =
                               Sub(Sub(pool_twist_vault, pending), amount_to_return)
                        /\ staker_twist_account' = [staker_twist_account EXCEPT
                               ![s] = Add(Add(@, pending), amount_to_return)]
                        /\ pool_sector_token_account' =
                               Sub(pool_sector_token_account, amount_to_return)
                        /\ bond_pool' = [bond_pool EXCEPT
                               !.total_shares = Sub(@, shares_to_withdraw),
                               !.total_staked = Sub(@, amount_to_return),
                               !.staker_count =
                                   IF withdrawing_all /\ ~IsZero(@) THEN Sub(@, N(1)) ELSE @]
                        /\ factory_state' = [factory_state EXCEPT
                               !.current_tvl = Sub(@, amount_to_return)]
                        /\ bond_position' =
                               [t \in DOMAIN bond_position \ {s} |-> bond_position[t]]
                        /\ UNCHANGED <<burn_source, clock>>
               ELSE /\ BondFrame

set_pool_paused(paused) ==
    /\ UNCHANGED outside_bond
    /\ bond_pool' = [bond_pool EXCEPT !.paused = paused]
    /\ UNCHANGED <<factory_state, bond_position, staker_twist_account,
                   pool_twist_vault, pool_sector_token_account, burn_source, clock>>

\* Clock::get() advances between transactions
AdvanceClock ==
    /\ UNCHANGED outside_bond
    /\ \E now \in ClockReadings :
          /\ now > clock
          /\ clock' = now
    /\ UNCHANGED <<factory_state, bond_pool, bond_position, staker_twist_account,
                   pool_twist_vault, pool_sector_token_account, burn_source>>

\* amounts offered to stake_in_pool: the whole balance, one unit more than
\* the balance, one unit less than the pool minimum
StakeChoices(s) ==
    {staker_twist_account[s], Add(staker_twist_account[s], N(1)),
     Sub(bond_pool.min_stake_amount, N(1))}

\* shares_to_withdraw offered to withdraw_stake: all, a part, one too many
WithdrawChoices(s) ==
    IF HasPosition(s)
    THEN {bond_position[s].shares, PartialShares, Add(bond_position[s].shares, N(1))}
    ELSE {PartialShares}

BondNext ==
    \/ \E s \in Stakers : \E amount \in StakeChoices(s) : stake_in_pool(s, amount)
    \/ \E burn_amount \in BurnAmounts : distribute_yield(burn_amount)
    \/ \E s \in Stakers : claim_rewards(s)
    \/ \E s \in Stakers : \E shares \in WithdrawChoices(s) : withdraw_stake(s, shares)
    \/ \E paused \in BOOLEAN : set_pool_paused(paused)
    \/ AdvanceClock


----------------------------------------------------------------------------
(* Bond pool factory: properties.                                          *)

RECURSIVE SumOver(_, _)
SumOver(S, f) ==
    IF S = {} THEN <<>>
    ELSE LET x == CHOOSE x \in S : TRUE
         IN  Add(f[x], SumOver(S \ {x}, f))

SumStakedOf(positions) ==
    SumOver(DOMAIN positions, [t \in DOMAIN positions |-> positions[t].amount_staked])

SumSharesOf(positions) ==
    SumOver(DOMAIN positions, [t \in DOMAIN positions |-> positions[t].shares])

SharePending(position, pool) ==
    calculate_pending_rewards(pool, position.shares, position.reward_debt)

SumPendingOf(positions, pool) ==
    SumOver(DOMAIN positions,
            [t \in DOMAIN positions |-> SharePending(positions[t], pool)])

\* tokens a claim_rewards by s would move out of the vault in this state
ClaimTransfer(s) ==
    IF ClaimResult(s) = "Ok" THEN ClaimPending(bond_position[s], bond_pool) ELSE <<>>

\* C1: after any sequence of stake_in_pool and withdraw_stake (full or
\* partial), the amount_staked of the existing positions sum to
\* pool.total_staked and their shares sum to pool.total_shares.
C1_Conservation ==
    /\ SumStakedOf(bond_position) = bond_pool.total_staked
    /\ SumSharesOf(bond_position) = bond_pool.total_shares

\* C2: a claim_rewards that directly follows a claim_rewards of the same
\* position finds nothing pending and transfers 0 tokens, and a position
\* with nothing pending has nothing pending after any step that is not a
\* distribute_yield.
C2_NoDoublePayment ==
    [][\A s \in DOMAIN bond_position :
        /\ (/\ s \in DOMAIN bond_position'
            /\ bond_position'[s] # bond_position[s]
            /\ claim_rewards(s))
              => ClaimPending(bond_position'[s], bond_pool') = <<>>
        /\ (/\ s \in DOMAIN bond_position'
            /\ bvars' # bvars
            /\ ClaimPending(bond_position[s], bond_pool) = <<>>
            /\ ~ \E burn_amount \in BurnAmounts : distribute_yield(burn_amount))
              => ClaimPending(bond_position'[s], bond_pool') = <<>>
      ]_bvars

\* a position that has been paid rewards and has nothing left to claim
C2_Witness ==
    \E s \in DOMAIN bond_position :
        /\ ~IsZero(bond_position[s].rewards_claimed)
        /\ ClaimResult(s) = "Ok"
        /\ ClaimTransfer(s) = <<>>


\* a distribute_yield step over positions whose shares sum to total_shares
\* and that had nothing pending before it
C4_Case(burn_amount) ==
    /\ bvars' # bvars
    /\ DOMAIN bond_position # {}
    /\ distribute_yield(burn_amount)
    /\ SumSharesOf(bond_position) = bond_pool.total_shares
    /\ \A t \in DOMAIN bond_position :
            IsZero(SharePending(bond_position[t], bond_pool))

C5_NoEarlierYield ==
    [][\A s \in Stakers :
        (/\ ~HasPosition(s)
         /\ s \in DOMAIN bond_position'
         /\ \E amount \in StakeChoices(s) : stake_in_pool(s, amount))
           => /\ ClaimPending(bond_position'[s], bond_pool') = <<>>
              /\ SharePending(bond_position'[s], bond_pool') = <<>>
              /\ calculate_pending_rewards_integral(bond_position'[s], bond_pool') = <<>>
              /\ \A t \in DOMAIN bond_position :
                    /\ t \in DOMAIN bond_position'
                    /\ ClaimPending(bond_position'[t], bond_pool')
                          = ClaimPending(bond_position[t], bond_pool)
      ]_bvars

\* a position opened after a distribution has nothing pending while an
\* older position still has its reward pending
C5_Witness ==
    \E s, t \in DOMAIN bond_position :
        /\ ~IsZero(bond_position[s].claimed_cursor)
        /\ IsZero(bond_position[s].rewards_claimed)
        /\ IsZero(ClaimPending(bond_position[s], bond_pool))
        /\ IsZero(bond_position[t].claimed_cursor)
        /\ ~IsZero(ClaimPending(bond_position[t], bond_pool))

\* C6: a withdraw_stake of fewer shares than the position holds leaves the
\* position open with the remaining shares; a position is closed only by a
\* withdrawal of all of its shares.
C6_PartialWithdrawKeepsPosition ==
    [][\A s \in DOMAIN bond_position :
        /\ (/\ bvars' # bvars
            /\ \E shares \in WithdrawChoices(s) :
                  /\ Lt(shares, bond_position[s].shares)
                  /\ withdraw_stake(s, shares))
              => /\ s \in DOMAIN bond_position'
                 /\ Add(bond_position'[s].shares,
                        Sub(bond_pool.total_shares, bond_pool'.total_shares))
                      = bond_position[s].shares
        /\ (s \notin DOMAIN bond_position')
              => /\ withdraw_stake(s, bond_position[s].shares)
                 /\ Sub(bond_pool.total_staked, bond_pool'.total_staked)
                      = bond_position[s].amount_staked
      ]_bvars

\* C9: burn_portion + staker_portion equals the distributed amount in every
\* distribute_yield, so the pool's and the factory's burned and distributed
\* totals add up to the accumulated total; 9000 bps of 1,000,000,000,000 is
\* 900,000,000,000 burned and 100,000,000,000 to stakers.
C9_SplitIsExact ==
    /\ Add(bond_pool.total_yield_burned, bond_pool.total_yield_distributed)
          = bond_pool.total_yield_accumulated
    /\ Add(factory_state.total_burned_from_yield,
           factory_state.total_distributed_to_stakers)
          = bond_pool.total_yield_accumulated
    /\ Add(burn_source, bond_pool.total_yield_burned) = N(VisitorFunds)
    /\ \A burn_amount \in BurnAmounts \cup {Mul(N(1000), ONE_TWIST)} :
          Add(BurnPortion(burn_amount, factory_state.burn_percentage_bps),
              StakerPortion(burn_amount, factory_state.burn_percentage_bps))
            = burn_amount
    /\ BurnPortion(Mul(N(1000), ONE_TWIST), 9000) = Mul(N(900), ONE_TWIST)
    /\ StakerPortion(Mul(N(1000), ONE_TWIST), 9000) = Mul(N(100), ONE_TWIST)

\* distributions whose 90% part was rounded down have been made
C9_Witness ==
    /\ bond_pool.total_yield_accumulated = N(14)
    /\ bond_pool.total_yield_burned = N(12)
    /\ bond_pool.total_yield_distributed = N(2)

\* C10: distribute_yield fails with NoStakers whenever total_shares is 0 and
\* then changes nothing, so no distribute_yield is accepted while no
\* position exists to receive the yield.
C10_NoYieldWithoutStakers ==
    [][\A burn_amount \in BurnAmounts :
        /\ IsZero(bond_pool.total_shares)
              => /\ DistributeResult(burn_amount) = "NoStakers"
                 /\ distribute_yield(burn_amount) => bvars' = bvars
        /\ (bvars' # bvars /\ distribute_yield(burn_amount))
              => DOMAIN bond_position # {}
      ]_bvars


\* C11: reward_per_share and yield_integral never decrease, whatever
\* instruction is executed.
C11_AccumulatorsMonotone ==
    [][/\ Ge(bond_pool'.reward_per_share, bond_pool.reward_per_share)
       /\ Ge(bond_pool'.yield_integral, bond_pool.yield_integral)
      ]_bvars

\* two distributions have raised both accumulators and a withdrawal has
\* been made
C11_Witness ==
    /\ bond_pool.total_yield_distributed = N(2)
    /\ bond_pool.total_yield_burned = N(12)
    /\ Gt(bond_pool.yield_integral, bond_pool.reward_per_share)
    /\ ~IsZero(bond_pool.reward_per_share)
    /\ Lt(factory_state.current_tvl, factory_state.total_value_locked)

\* C12: total_shares is zero exactly when total_staked is zero.
C12_SharesZeroIffStakedZero ==
    IsZero(bond_pool.total_shares) <=> IsZero(bond_pool.total_staked)

\* a pool that was staked in and has been emptied again by full withdrawals
C12_Witness ==
    /\ IsZero(bond_pool.total_shares)
    /\ IsZero(bond_pool.total_staked)
    /\ ~IsZero(factory_state.total_value_locked)

-----------------------------------------------------------------------------
(* Influencer staking (programs/influencer-staking/src/lib.rs).            *)
(* One StakingPool, the StakeAccount PDA of each staker, the stakers'      *)
(* token accounts, the pool vault and the rewards treasury.  A failed      *)
(* instruction commits nothing.                                            *)

\* stakers of the influencer's pool
NumInfluencerStakers == 2
InfluencerStakers == 1..NumInfluencerStakers
\* revenue_share_bps and min_stake handed to initialize_pool
InitialShareBps == 2000
InitialMinStake == N(1)
\* new_share_bps offered to update_revenue_share: one accepted, one refused
ShareBpsChoices == {1000, 5001}
\* tokens each staker starts with, and the rewards treasury's balance
InfluencerStakerFunds == N(1)
TreasuryFunds == 2
\* amounts offered to stake_on_influencer and unstake
InfluencerAmounts == {N(0), N(1)}
\* earning_amount offered to distribute_rewards
EarningAmounts == {N(5)}
\* distribute_rewards is offered while total_rewards_distributed is below this
MaxDistributed == 1
\* stake_on_influencer and unstake are offered while they leave the
\* account's pending_rewards at most this
MaxPending == 1
\* stake_on_influencer and unstake are offered while staker_count is at most this
MaxStakerCount == 2

\* StakingPool after initialize_pool
StakingPoolInit ==
    [ total_staked |-> <<>>,
      staker_count |-> <<>>,
      revenue_share_bps |-> InitialShareBps,
      min_stake |-> InitialMinStake,
      total_rewards_distributed |-> <<>>,
      pending_rewards |-> <<>>,
      is_active |-> TRUE ]

InfluencerInit ==
    /\ staking_pool = StakingPoolInit
    /\ stake_account = << >>
    /\ staker_tokens = [s \in InfluencerStakers |-> InfluencerStakerFunds]
    /\ vault = <<>>
    /\ rewards_treasury = N(TreasuryFunds)

\* a StakeAccount as init_if_needed creates it: all fields zero
ZeroedStakeAccount ==
    [ amount |-> <<>>, total_claimed |-> <<>>, pending_rewards |-> <<>> ]

\* the stake account the instruction sees for staker s
StakeAccountOf(s) ==
    IF s \in DOMAIN stake_account THEN stake_account[s] ELSE ZeroedStakeAccount

\* `a -= b` on an unsigned integer of the given modulus, in a
\* build without overflow checks
WrappingSub(a, b, modulus) == IF Ge(a, b) THEN Sub(a, b) ELSE Sub(Add(a, modulus), b)

\* fn calculate_pending_rewards
influencer_calculate_pending_rewards(stake, pool) ==
    IF IsZero(pool.total_staked) \/ IsZero(stake.amount) THEN <<>>
    ELSE AsU64(Div(Mul(stake.amount, pool.pending_rewards), pool.total_staked))

\* the stake account after the `if stake_account.amount == 0` block
OpenedStakeAccount(stake) ==
    IF IsZero(stake.amount)
    THEN [stake EXCEPT !.total_claimed = <<>>, !.pending_rewards = <<>>]
    ELSE stake

stake_on_influencer(s, amount) ==
    /\ UNCHANGED outside_influencer
    /\ LET before == StakeAccountOf(s)
               opened == OpenedStakeAccount(before)
               count == IF IsZero(before.amount)
                        THEN Add(staking_pool.staker_count, N(1))
                        ELSE staking_pool.staker_count
               pool_opened == [staking_pool EXCEPT !.staker_count = Mod(count, U32_MODULUS)]
               pending == influencer_calculate_pending_rewards(opened, pool_opened)
               new_pending == Add(opened.pending_rewards, pending)
               new_amount == Add(opened.amount, amount)
               new_total == Add(staking_pool.total_staked, amount)
               overflowed == \/ ~FitsU32(count)
                             \/ ~FitsU64(new_pending)
                             \/ ~FitsU64(new_amount)
                             \/ ~FitsU64(new_total)
               failed == \/ ~staking_pool.is_active
                         \/ Lt(amount, staking_pool.min_stake)
                         \/ Lt(staker_tokens[s], amount)
           IN  /\ Le(new_pending, N(MaxPending))
        /\ Le(staking_pool.staker_count, N(MaxStakerCount))
               /\ IF failed
                  THEN UNCHANGED ivars
                  ELSE \/ /\ overflowed
                          /\ UNCHANGED ivars
                       \/ /\ stake_account' =
                               [t \in DOMAIN stake_account \cup {s} |->
                                   IF t = s
                                   THEN [ amount |-> Mod(new_amount, U64_MODULUS),
                                          total_claimed |-> opened.total_claimed,
                                          pending_rewards |-> Mod(new_pending, U64_MODULUS) ]
                                   ELSE stake_account[t]]
                          /\ staking_pool' =
                               [pool_opened EXCEPT !.total_staked = Mod(new_total, U64_MODULUS)]
                          /\ staker_tokens' = [staker_tokens EXCEPT ![s] = Sub(@, amount)]
                          /\ vault' = Add(vault, amount)
                          /\ UNCHANGED rewards_treasury

unstake(s, amount) ==
    /\ UNCHANGED outside_influencer
    /\ LET before == StakeAccountOf(s)
               pending == influencer_calculate_pending_rewards(before, staking_pool)
               new_pending == Add(before.pending_rewards, pending)
               failed == \/ s \notin DOMAIN stake_account
                         \/ Gt(amount, before.amount)
                         \/ Lt(vault, amount)
               new_amount == Sub(before.amount, amount)
               closes == IsZero(new_amount)
               overflowed == \/ ~FitsU64(new_pending)
                             \/ Lt(staking_pool.total_staked, amount)
                             \/ closes /\ IsZero(staking_pool.staker_count)
           IN  /\ Le(new_pending, N(MaxPending))
        /\ Le(staking_pool.staker_count, N(MaxStakerCount))
               /\ IF failed
                  THEN UNCHANGED ivars
                  ELSE \/ /\ overflowed
                          /\ UNCHANGED ivars
                       \/ /\ stake_account' =
                               [stake_account EXCEPT
                                   ![s].pending_rewards = Mod(new_pending, U64_MODULUS),
                                   ![s].amount = new_amount]
                          /\ staking_pool' =
                               [staking_pool EXCEPT
                                   !.total_staked = WrappingSub(@, amount, U64_MODULUS),
                                   !.staker_count =
                                       IF closes THEN WrappingSub(@, N(1), U32_MODULUS) ELSE @]
                          /\ vault' = Sub(vault, amount)
                          /\ staker_tokens' = [staker_tokens EXCEPT ![s] = Add(@, amount)]
                          /\ UNCHANGED rewards_treasury

\* staker_rewards of distribute_rewards
StakerRewards(earning_amount, revenue_share_bps) ==
    Div(Mul(earning_amount, N(revenue_share_bps)), BPS_DENOMINATOR)

distribute_rewards(earning_amount) ==
    /\ UNCHANGED outside_influencer
    /\ LET staker_rewards == StakerRewards(earning_amount, staking_pool.revenue_share_bps)
               new_pending == Add(staking_pool.pending_rewards, staker_rewards)
               new_total == Add(staking_pool.total_rewards_distributed, staker_rewards)
               failed == \/ IsZero(staking_pool.total_staked)
                         \/ ~FitsU64(Mul(earning_amount, N(staking_pool.revenue_share_bps)))
               overflowed == ~FitsU64(new_pending) \/ ~FitsU64(new_total)
           IN  /\ Lt(staking_pool.total_rewards_distributed, N(MaxDistributed))
               /\ IF failed
                  THEN UNCHANGED ivars
                  ELSE \/ /\ overflowed
                          /\ UNCHANGED ivars
                       \/ /\ staking_pool' =
                               [staking_pool EXCEPT
                                   !.pending_rewards = Mod(new_pending, U64_MODULUS),
                                   !.total_rewards_distributed = Mod(new_total, U64_MODULUS)]
                          /\ UNCHANGED <<stake_account, staker_tokens, vault, rewards_treasury>>

\* total_claimable of claim_rewards, before any overflow handling
TotalClaimable(stake, pool) ==
    Add(stake.pending_rewards, influencer_calculate_pending_rewards(stake, pool))

influencer_claim_rewards(s) ==
    /\ UNCHANGED outside_influencer
    /\ LET before == StakeAccountOf(s)
               claimable == TotalClaimable(before, staking_pool)
               total_claimable == Mod(claimable, U64_MODULUS)
               new_claimed == Add(before.total_claimed, total_claimable)
               overflowed == ~FitsU64(claimable) \/ ~FitsU64(new_claimed)
               failed == \/ s \notin DOMAIN stake_account
                         \/ IsZero(total_claimable)
                         \/ Lt(rewards_treasury, total_claimable)
           IN  IF failed
               THEN UNCHANGED ivars
               ELSE \/ /\ overflowed
                       /\ UNCHANGED ivars
                    \/ /\ stake_account' =
                            [stake_account EXCEPT
                                ![s].pending_rewards = <<>>,
                                ![s].total_claimed = Mod(new_claimed, U64_MODULUS)]
                       /\ rewards_treasury' = Sub(rewards_treasury, total_claimable)
                       /\ staker_tokens' = [staker_tokens EXCEPT ![s] = Add(@, total_claimable)]
                       /\ UNCHANGED <<staking_pool, vault>>

update_revenue_share(new_share_bps) ==
    /\ UNCHANGED outside_influencer
    /\ IF new_share_bps <= 5000
           THEN /\ staking_pool' = [staking_pool EXCEPT !.revenue_share_bps = new_share_bps]
                /\ UNCHANGED <<stake_account, staker_tokens, vault, rewards_treasury>>
           ELSE UNCHANGED ivars

InfluencerNext ==
    \/ \E s \in InfluencerStakers : \E amount \in InfluencerAmounts : stake_on_influencer(s, amount)
    \/ \E s \in InfluencerStakers : \E amount \in InfluencerAmounts : unstake(s, amount)
    \/ \E earning_amount \in EarningAmounts : distribute_rewards(earning_amount)
    \/ \E s \in InfluencerStakers : influencer_claim_rewards(s)
    \/ \E new_share_bps \in ShareBpsChoices : update_revenue_share(new_share_bps)

-----------------------------------------------------------------------------
(* twist-token staking: stake, unstake and claim_rewards of                *)
(* programs/twist-token.                                                   *)

NumTokenOwners == 1
TokenOwners == 1..NumTokenOwners

DAY == 86400
\* constants.rs
MIN_STAKE_PERIOD == 30 * DAY
MAX_STAKE_PERIOD == 365 * DAY
APY_30_DAYS == 1000
APY_90_DAYS == 2000
APY_180_DAYS == 3500
APY_365_DAYS == 6700
\* StakeState::MAX_STAKES, the entries the account's space is sized for
MAX_STAKES == 10

\* StakeEntry::LEN as its comment gives it, 57 bytes
StakeEntry_LEN_as_commented == 8 + 8 + 8 + 8 + 8 + 8 + 1 + 8

\* StakeEntry::LEN
StakeEntry_LEN == 8 + 8 + 8 + 8 + 8 + 8 + 1

\* StakeState::LEN, the space of the stake_state account
StakeState_LEN == 8 + 32 + 1 + 8 + 8 + 16 + 4 + (StakeEntry_LEN * MAX_STAKES) + 1

\* the bytes a StakeEntry serializes to: u64, i64, i64, u64, i64, u64, bool
StakeEntrySize == 8 + 8 + 8 + 8 + 8 + 8 + 1

\* the bytes a StakeState of stake_count entries serializes to, behind the
\* discriminator: owner, bump, stake_index, total_staked, total_earned, the
\* Vec's length and entries, is_initialized
SerializedLen(stake_count) ==
    8 + 32 + 1 + 8 + 8 + 16 + 4 + (StakeEntrySize * stake_count) + 1

\* the Clock::get() readings transactions see: the start, a third of the
\* shortest lock, its end, and ten days after
TokenClockReadings ==
    {GenesisTime, GenesisTime + 10 * DAY, GenesisTime + 30 * DAY,
     GenesisTime + 40 * DAY}

\* each owner's wallet, and the amounts and lock periods owners stake with
OwnerFunds == ONE_TWIST
StakeAmounts == {<<>>, ONE_TWIST}
LockPeriods == {29 * DAY, MIN_STAKE_PERIOD, MAX_STAKE_PERIOD}

\* the stake vault's reward reserve: unstake pays rewards out of the vault
VaultReserve == ONE_TWIST

\* u64::saturating_add and u128::saturating_add, u128::saturating_sub
SaturatingAdd(a, b, modulus) ==
    IF Lt(Add(a, b), modulus) THEN Add(a, b) ELSE Sub(modulus, N(1))

SaturatingSub(a, b) == IF Ge(a, b) THEN Sub(a, b) ELSE <<>>

-----------------------------------------------------------------------------
(* Signed integers of any size (i64 and i128 quantities of the PID         *)
(* controller): a sign and a magnitude, zero never negative.               *)

Signed(neg, mag) == [neg |-> neg /\ ~IsZero(mag), mag |-> mag]

S(i) == IF i < 0 THEN Signed(TRUE, N(0 - i)) ELSE Signed(FALSE, N(i))

Abs(i) == IF i < 0 THEN 0 - i ELSE i

SignedAdd(a, b) ==
    IF a.neg = b.neg THEN Signed(a.neg, Add(a.mag, b.mag))
    ELSE IF Ge(a.mag, b.mag) THEN Signed(a.neg, Sub(a.mag, b.mag))
    ELSE Signed(b.neg, Sub(b.mag, a.mag))

SignedMul(a, b) == Signed(a.neg # b.neg, Mul(a.mag, b.mag))

\* Rust's `/` on signed integers: the quotient rounded toward zero
SignedDiv(a, b) == Signed(a.neg # b.neg, Div(a.mag, b.mag))

SignedLt(a, b) ==
    IF a.neg # b.neg THEN a.neg
    ELSE IF a.neg THEN Lt(b.mag, a.mag)
    ELSE Lt(a.mag, b.mag)

SignedLe(a, b) == ~SignedLt(b, a)

\* Ord::clamp
SignedClamp(x, lo, hi) ==
    IF SignedLt(x, lo) THEN lo ELSE IF SignedLt(hi, x) THEN hi ELSE x

I128_MAX == Signed(FALSE, Sub(Div(U128_MODULUS, N(2)), N(1)))
I128_MIN == Signed(TRUE, Div(U128_MODULUS, N(2)))

\* i128::saturating_add
SaturatingAddI128(a, b) == SignedClamp(SignedAdd(a, b), I128_MIN, I128_MAX)

\* the value of a signed integer that fits the checker's integers
RECURSIVE DigitsValue(_)
DigitsValue(digits) ==
    IF digits = << >> THEN 0
    ELSE Head(digits) + Radix * DigitsValue(Tail(digits))

IntOf(a) == IF a.neg THEN 0 - DigitsValue(a.mag) ELSE DigitsValue(a.mag)

\* PIDControllerParams the authority initializes or updates the controller
\* with: a controller whose integral term dominates, one with narrow integral
\* and output limits and a short cooldown, and a proportional-only one whose
\* output stays inside every limit
PidParamChoices ==
    { [ kp |-> 5000, ki |-> 1, kd |-> 100,
        target_price |-> 50050, price_tolerance_bps |-> 100,
        max_mint_rate_bps |-> 100, max_burn_rate_bps |-> 50,
        adjustment_cooldown |-> 3600,
        integral_min |-> SignedMul(S(-1000000), S(1000000)),
        integral_max |-> SignedMul(S(1000000), S(1000000)),
        output_min |-> -1000, output_max |-> 1000 ],
      [ kp |-> 5000, ki |-> 1, kd |-> 100,
        target_price |-> 60000, price_tolerance_bps |-> 50,
        max_mint_rate_bps |-> 100, max_burn_rate_bps |-> 50,
        adjustment_cooldown |-> 60,
        integral_min |-> S(-1000000),
        integral_max |-> S(1000000),
        output_min |-> -30, output_max |-> 30 ],
      [ kp |-> 10, ki |-> 0, kd |-> 0,
        target_price |-> 50050, price_tolerance_bps |-> 100,
        max_mint_rate_bps |-> 100, max_burn_rate_bps |-> 50,
        adjustment_cooldown |-> 3600,
        integral_min |-> SignedMul(S(-1000000), S(1000000)),
        integral_max |-> SignedMul(S(1000000), S(1000000)),
        output_min |-> -1000, output_max |-> 1000 ] }

\* pid_control::initialize_handler: the PIDControllerState it leaves
PIDControllerStateInit(params) ==
    [ kp |-> params.kp,
      ki |-> params.ki,
      kd |-> params.kd,
      integral |-> S(0),
      previous_error |-> 0,
      last_update_timestamp |-> 0,
      integral_min |-> params.integral_min,
      integral_max |-> params.integral_max,
      output_min |-> params.output_min,
      output_max |-> params.output_max,
      target_price |-> params.target_price,
      price_tolerance_bps |-> params.price_tolerance_bps,
      max_mint_rate_bps |-> params.max_mint_rate_bps,
      max_burn_rate_bps |-> params.max_burn_rate_bps,
      last_adjustment_timestamp |-> 0,
      adjustment_cooldown |-> params.adjustment_cooldown,
      total_minted |-> <<>>,
      total_burned |-> <<>>,
      adjustment_count |-> 0,
      last_adjustment_amount |-> <<>>,
      last_adjustment_type |-> "None" ]

\* the controller as initialize_pid_controller leaves it, no execute yet
PidAtRest ==
    /\ pid_controller =
           PIDControllerStateInit(
               CHOOSE params \in PidParamChoices :
                   params.kp = 10)
    /\ execute_result = "None"

\* twist-token multisig: the keys that sign (0 is not a member), the members
\* and threshold handed to initialize_multisig (the fewest members it accepts)
MultisigMembers == {1, 2, 3}
MultisigKeys == {0} \cup MultisigMembers
MultisigThreshold == 2

\* MultisigConfig after initialize_multisig_handler
MultisigConfigInit ==
    [ threshold |-> MultisigThreshold,
      members |-> MultisigMembers,
      transaction_count |-> 0,
      initialized |-> TRUE,
      pending_transactions |-> 0 ]

\* twist-token vesting: the beneficiaries and what the authority holds
NumBeneficiaries == 1
Beneficiaries == 1..NumBeneficiaries
AuthorityFunds == N(1000)

\* vau-processor: InitializeVAUProcessorParams of the processor
VauFeeBps == 50
VauMinBurn == 100
VauMaxBurn == 250
VauDailyLimit == 400

\* VAUProcessorState after initialize_vau_processor
VAUProcessorStateInit ==
    [ total_burns_processed |-> <<>>,
      total_twist_burned |-> <<>>,
      total_fees_collected |-> <<>>,
      processor_fee_bps |-> VauFeeBps,
      min_burn_amount |-> N(VauMinBurn),
      max_burn_amount |-> N(VauMaxBurn),
      daily_burn_limit_per_site |-> N(VauDailyLimit),
      paused |-> FALSE ]

\* WebsiteRegistry after register_website at `now`
WebsiteRegistryInit(now) ==
    [ total_burns |-> <<>>,
      total_twist_burned |-> <<>>,
      daily_burn_amount |-> <<>>,
      last_burn_timestamp |-> 0,
      last_daily_reset |-> now,
      unique_visitors |-> <<>>,
      avg_burn_per_visitor |-> <<>>,
      active |-> TRUE,
      verified |-> FALSE,
      registered_at |-> now ]

\* the multisig with nothing proposed, no vesting schedule created, the
\* processor initialised and the site registered
GovernanceAtRest ==
    /\ multisig_config = MultisigConfigInit
    /\ multisig_transaction = << >>
    /\ invoked = << >>
    /\ vesting_schedule = << >>
    /\ vesting_vault = << >>
    /\ beneficiary_token_account = [b \in Beneficiaries |-> <<>>]
    /\ authority_token_account = AuthorityFunds
    /\ vau_processor = VAUProcessorStateInit
    /\ website = WebsiteRegistryInit(GenesisTime)

\* InitializeParams::initial_floor_price, in USDC atomic units
InitialFloorPrice == 10000

\* ProgramState after initialize
ProgramStateInit ==
    [ total_staked |-> <<>>,
      total_stakes |-> 0,
      total_users |-> 0,
      floor_liquidity |-> <<>>,
      last_oracle_price |-> InitialFloorPrice,
      last_oracle_update |-> GenesisTime,
      volume_24h |-> <<>>,
      total_transactions |-> 0,
      circuit_breaker_active |-> FALSE,
      emergency_pause |-> FALSE,
      buyback_enabled |-> TRUE ]

\* a StakeState account before its owner's first stake
StakeStateInit ==
    [ is_initialized |-> FALSE,
      total_staked |-> <<>>,
      total_earned |-> <<>>,
      stakes |-> << >> ]

\* StakeEntry::is_unlocked
is_unlocked(stake, current_timestamp) ==
    current_timestamp >= stake.start_timestamp + stake.lock_period

\* the penalty rate of a lock period, in basis points
penalty_rate(lock_period) ==
    IF lock_period >= 365 * DAY THEN 2000
    ELSE IF lock_period >= 180 * DAY THEN 1500
    ELSE IF lock_period >= 90 * DAY THEN 1000
    ELSE 500

\* StakeEntry::calculate_early_unstake_penalty scaled by the time elapsed
\* since the stake started instead of the time remaining
calculate_early_unstake_penalty_by_elapsed(stake, current_timestamp) ==
    IF is_unlocked(stake, current_timestamp) THEN <<>>
    ELSE LET time_elapsed == current_timestamp - stake.start_timestamp
             time_ratio ==
                 Div(Mul(N(time_elapsed), N(10000)), N(stake.lock_period))
             scaled_penalty ==
                 Div(Mul(N(penalty_rate(stake.lock_period)), time_ratio), N(10000))
         IN  AsU64(Div(Mul(stake.amount, scaled_penalty), N(10000)))

\* StakeEntry::calculate_early_unstake_penalty
calculate_early_unstake_penalty(stake, current_timestamp) ==
    IF is_unlocked(stake, current_timestamp) THEN <<>>
    ELSE LET time_remaining ==
                 (stake.start_timestamp + stake.lock_period) - current_timestamp
             time_ratio ==
                 Div(Mul(N(time_remaining), N(10000)), N(stake.lock_period))
             scaled_penalty ==
                 Div(Mul(N(penalty_rate(stake.lock_period)), time_ratio), N(10000))
         IN  AsU64(Div(Mul(stake.amount, scaled_penalty), N(10000)))

\* StakeState::calculate_rewards, for an entry the account holds
calculate_rewards(stake, current_timestamp) ==
    IF stake.withdrawn THEN <<>>
    ELSE LET time_elapsed == current_timestamp - stake.last_claim_timestamp
             annual_reward == Div(Mul(stake.amount, N(stake.apy_bps)), N(10000))
         IN  AsU64(Div(Mul(annual_reward, N(time_elapsed)), N(365 * DAY)))

\* the APY stake gives a lock period
apy_of(lock_period) ==
    IF lock_period >= 365 * DAY THEN APY_365_DAYS
    ELSE IF lock_period >= 180 * DAY THEN APY_180_DAYS
    ELSE IF lock_period >= 90 * DAY THEN APY_90_DAYS
    ELSE APY_30_DAYS

\* CircuitBreakerState after initialize_handler with the default
\* CircuitBreakerParams; the historical data start zeroed
CircuitBreakerStateInit ==
    [ last_trip_timestamp |-> 0,
      last_trip_severity |-> "Low",
      last_trip_condition |-> "ManualTrigger",
      trip_count |-> 0,
      auto_reset_enabled |-> TRUE,
      price_volatility_threshold_bps |-> 5000,
      volume_spike_multiplier |-> 10,
      supply_change_threshold_bps |-> 200,
      liquidity_drain_threshold_bps |-> 2000,
      low_severity_cooldown |-> 900,
      medium_severity_cooldown |-> 3600,
      high_severity_cooldown |-> 14400,
      critical_severity_cooldown |-> 86400,
      price_1h_ago |-> 0,
      price_24h_ago |-> 0,
      volume_1h_ago |-> <<>>,
      volume_24h_ago |-> <<>>,
      supply_24h_ago |-> <<>>,
      liquidity_1h_ago |-> <<>> ]

TokenInit ==
    /\ program_state = ProgramStateInit
    /\ circuit_breaker = CircuitBreakerStateInit
    /\ unix_timestamp = GenesisTime
    /\ stake_state = [o \in TokenOwners |-> StakeStateInit]
    /\ owner_token_account = [o \in TokenOwners |-> OwnerFunds]
    /\ stake_vault = VaultReserve
    /\ floor_treasury_vault = <<>>
    /\ mint_supply = Add(VaultReserve, Mul(N(NumTokenOwners), OwnerFunds))
    /\ PidAtRest /\ GovernanceAtRest

\* stake::handler
token_stake(owner, amount, lock_period) ==
    /\ UNCHANGED outside_token
    /\ ~IsZero(amount)
    /\ lock_period >= MIN_STAKE_PERIOD /\ lock_period <= MAX_STAKE_PERIOD
    /\ ~program_state.emergency_pause
    /\ SerializedLen(Len(stake_state[owner].stakes) + 1) <= StakeState_LEN
    /\ Ge(owner_token_account[owner], amount)
    /\ LET stake_entry ==
               [ amount |-> amount,
                 start_timestamp |-> unix_timestamp,
                 lock_period |-> lock_period,
                 apy_bps |-> apy_of(lock_period),
                 last_claim_timestamp |-> unix_timestamp,
                 total_earned |-> <<>>,
                 withdrawn |-> FALSE ]
           opened == IF stake_state[owner].is_initialized
                     THEN stake_state[owner]
                     ELSE [StakeStateInit EXCEPT !.is_initialized = TRUE]
       IN  /\ stake_state' = [stake_state EXCEPT ![owner] =
                  [opened EXCEPT
                      !.stakes = Append(@, stake_entry),
                      !.total_staked = SaturatingAdd(@, amount, U64_MODULUS)]]
           /\ program_state' = [program_state EXCEPT
                  !.total_users = IF stake_state[owner].is_initialized
                                  THEN @ ELSE @ + 1,
                  !.total_staked = SaturatingAdd(@, amount, U128_MODULUS),
                  !.total_stakes = @ + 1]
    /\ owner_token_account' =
           [owner_token_account EXCEPT ![owner] = Sub(@, amount)]
    /\ stake_vault' = Add(stake_vault, amount)
    /\ UNCHANGED <<floor_treasury_vault, mint_supply, circuit_breaker,
                   unix_timestamp>>

\* unstake::handler without the check that the entry was not withdrawn
not_yet_withdrawn_unchecked(stake) == TRUE

\* unstake::handler, `require!(!stake_ref.withdrawn, ...)`
not_yet_withdrawn(stake) == ~stake.withdrawn

\* unstake::handler, the penalty of the entry at `now`
early_penalty_of(stake, now) ==
    IF ~is_unlocked(stake, now)
    THEN calculate_early_unstake_penalty(stake, now)
    ELSE <<>>

\* unstake::handler
token_unstake(owner, stake_index) ==
    /\ UNCHANGED outside_token
    /\ stake_index \in DOMAIN stake_state[owner].stakes
    /\ ~program_state.emergency_pause
    /\ LET stake_ref == stake_state[owner].stakes[stake_index]
           pending_rewards == calculate_rewards(stake_ref, unix_timestamp)
           stake_amount == stake_ref.amount
           early_penalty == early_penalty_of(stake_ref, unix_timestamp)
           total_before_penalty == Add(stake_amount, pending_rewards)
           total_to_return == Sub(total_before_penalty, early_penalty)
       IN  /\ not_yet_withdrawn(stake_ref)
           /\ FitsU64(total_before_penalty)
           /\ Ge(total_before_penalty, early_penalty)
           /\ FitsU64(Add(stake_ref.total_earned, pending_rewards))
           /\ Ge(stake_state[owner].total_staked, stake_amount)
           /\ FitsU64(Add(program_state.floor_liquidity,
                          Div(early_penalty, ONE_TWIST)))
           /\ Ge(stake_vault, Add(total_to_return, early_penalty))
           /\ stake_state' = [stake_state EXCEPT ![owner] =
                  [@ EXCEPT
                      !.stakes[stake_index] =
                          [@ EXCEPT !.withdrawn = TRUE,
                                    !.total_earned = Add(@, pending_rewards),
                                    !.last_claim_timestamp = unix_timestamp],
                      !.total_staked = Sub(@, stake_amount),
                      !.total_earned =
                          SaturatingAdd(@, pending_rewards, U128_MODULUS)]]
           /\ program_state' = [program_state EXCEPT
                  !.total_staked = SaturatingSub(@, stake_amount),
                  !.floor_liquidity =
                      IF ~IsZero(early_penalty)
                      THEN Add(@, Div(early_penalty, ONE_TWIST)) ELSE @]
           /\ owner_token_account' =
                  [owner_token_account EXCEPT ![owner] = Add(@, total_to_return)]
           /\ stake_vault' = Sub(Sub(stake_vault, total_to_return), early_penalty)
           /\ floor_treasury_vault' = Add(floor_treasury_vault, early_penalty)
    /\ UNCHANGED <<mint_supply, circuit_breaker, unix_timestamp>>

\* claim_rewards::handler
token_claim_rewards(owner, stake_index) ==
    /\ UNCHANGED outside_token
    /\ stake_index \in DOMAIN stake_state[owner].stakes
    /\ ~program_state.emergency_pause
    /\ LET stake_ref == stake_state[owner].stakes[stake_index]
           pending_rewards == calculate_rewards(stake_ref, unix_timestamp)
       IN  /\ ~IsZero(pending_rewards)
           /\ ~stake_ref.withdrawn
           /\ FitsU64(Add(stake_ref.total_earned, pending_rewards))
           /\ FitsU64(Add(mint_supply, pending_rewards))
           /\ stake_state' = [stake_state EXCEPT ![owner] =
                  [@ EXCEPT
                      !.total_earned =
                          SaturatingAdd(@, pending_rewards, U128_MODULUS),
                      !.stakes[stake_index] =
                          [@ EXCEPT !.last_claim_timestamp = unix_timestamp,
                                    !.total_earned = Add(@, pending_rewards)]]]
           /\ owner_token_account' =
                  [owner_token_account EXCEPT ![owner] = Add(@, pending_rewards)]
           /\ mint_supply' = Add(mint_supply, pending_rewards)
           /\ program_state' = [program_state EXCEPT !.total_transactions = @ + 1]
    /\ UNCHANGED <<stake_vault, floor_treasury_vault, circuit_breaker,
                   unix_timestamp>>

\* admin::set_emergency_pause_handler
set_emergency_pause(paused) ==
    /\ UNCHANGED outside_token
    /\ program_state.emergency_pause # paused
    /\ program_state' = [program_state EXCEPT
           !.emergency_pause = paused,
           !.buyback_enabled = ~paused]
    /\ UNCHANGED <<stake_state, owner_token_account, stake_vault,
                   floor_treasury_vault, mint_supply, circuit_breaker,
                   unix_timestamp>>

\* the Clock sysvar moves to a later reading
TokenAdvanceClock ==
    /\ UNCHANGED outside_token
    /\ \E now \in TokenClockReadings :
           now > unix_timestamp /\ unix_timestamp' = now
    /\ UNCHANGED <<program_state, stake_state, owner_token_account, stake_vault,
                   floor_treasury_vault, mint_supply, circuit_breaker>>

StakeIndexes == 1..MAX_STAKES

TokenStakingNext ==
    \/ \E owner \in TokenOwners : \E amount \in StakeAmounts :
          \E lock_period \in LockPeriods : token_stake(owner, amount, lock_period)
    \/ \E owner \in TokenOwners : \E stake_index \in StakeIndexes :
          token_unstake(owner, stake_index)
    \/ \E owner \in TokenOwners : \E stake_index \in StakeIndexes :
          token_claim_rewards(owner, stake_index)
    \/ \E paused \in BOOLEAN : set_emergency_pause(paused)
    \/ TokenAdvanceClock

-----------------------------------------------------------------------------
(* twist-token circuit breaker: instructions/circuit_breaker.rs and the    *)
(* admin trigger and reset of instructions/admin.rs.                       *)

Severities == {"Low", "Medium", "High", "Critical"}

\* trips the model lets the breaker count
MaxTrips == 1

\* initial_floor_price values the program is initialized with
InitialFloorPrices == {10000, 20000}

\* oracle_update::handler, mock_price
MOCK_PRICE == 50000

\* the Clock::get() readings transactions see: mid-hour, the top of an hour,
\* 100 seconds later, the top of the next hour (and of a day), and the High
\* and Critical cooldowns after the third
BreakerClockReadings ==
    {GenesisTime, GenesisTime + 2800, GenesisTime + 2900, GenesisTime + 6400,
     GenesisTime + 2900 + 14400, GenesisTime + 2900 + 86400}

\* fn severity_to_u8; 0 stands for no severity
severity_to_u8(severity) ==
    CASE severity = "Low" -> 1
      [] severity = "Medium" -> 2
      [] severity = "High" -> 3
      [] severity = "Critical" -> 4
      [] OTHER -> 0

\* CircuitBreakerState::get_cooldown_duration
get_cooldown_duration(breaker, severity) ==
    CASE severity = "Low" -> breaker.low_severity_cooldown
      [] severity = "Medium" -> breaker.medium_severity_cooldown
      [] severity = "High" -> breaker.high_severity_cooldown
      [] severity = "Critical" -> breaker.critical_severity_cooldown

\* CircuitBreakerState::can_reset
can_reset(breaker, current_timestamp) ==
    IF ~breaker.auto_reset_enabled THEN FALSE
    ELSE current_timestamp - breaker.last_trip_timestamp
             >= get_cooldown_duration(breaker, breaker.last_trip_severity)

\* the severity of a measure against its threshold, as each check_* grades it:
\* critical above `critical_factor` thresholds, high above two, medium above
\* one
graded(over_threshold, over_double, over_critical) ==
    IF over_threshold
    THEN IF over_critical THEN "Critical"
         ELSE IF over_double THEN "High"
         ELSE "Medium"
    ELSE "None"

\* CircuitBreakerState::check_price_volatility
check_price_volatility(breaker, current_price) ==
    LET volatility_1h ==
            IF breaker.price_1h_ago > 0
            THEN LET diff == IF current_price > breaker.price_1h_ago
                             THEN current_price - breaker.price_1h_ago
                             ELSE breaker.price_1h_ago - current_price
                 IN  (diff * 10000) \div breaker.price_1h_ago
            ELSE 0
        threshold == breaker.price_volatility_threshold_bps
    IN  graded(volatility_1h > threshold, volatility_1h > threshold * 2,
               volatility_1h > threshold * 3)

\* CircuitBreakerState::check_volume_spike
check_volume_spike(breaker, current_volume) ==
    IF IsZero(breaker.volume_1h_ago) THEN "None"
    ELSE LET spike_ratio == Div(current_volume, breaker.volume_1h_ago)
             multiplier == breaker.volume_spike_multiplier
         IN  graded(Gt(spike_ratio, N(multiplier)),
                    Gt(spike_ratio, N(multiplier * 2)),
                    Gt(spike_ratio, N(multiplier * 5)))

\* CircuitBreakerState::check_supply_change
check_supply_change(breaker, current_supply) ==
    IF IsZero(breaker.supply_24h_ago) THEN "None"
    ELSE LET change == IF Gt(current_supply, breaker.supply_24h_ago)
                       THEN Sub(current_supply, breaker.supply_24h_ago)
                       ELSE Sub(breaker.supply_24h_ago, current_supply)
             change_bps == Div(Mul(change, N(10000)), breaker.supply_24h_ago)
             threshold == breaker.supply_change_threshold_bps
         IN  graded(Gt(change_bps, N(threshold)),
                    Gt(change_bps, N(threshold * 2)),
                    Gt(change_bps, N(threshold * 3)))

\* CircuitBreakerState::check_liquidity_drain
check_liquidity_drain(breaker, current_liquidity) ==
    IF IsZero(breaker.liquidity_1h_ago) THEN "None"
    ELSE IF Lt(current_liquidity, breaker.liquidity_1h_ago)
    THEN LET drain == Sub(breaker.liquidity_1h_ago, current_liquidity)
             drain_bps == Div(Mul(drain, N(10000)), breaker.liquidity_1h_ago)
             threshold == breaker.liquidity_drain_threshold_bps
         IN  graded(Gt(drain_bps, N(threshold)),
                    Gt(drain_bps, N(threshold * 2)),
                    Gt(drain_bps, N(threshold * 3)))
    ELSE "None"

\* fn update_historical_data
update_historical_data(breaker, state, supply, timestamp) ==
    LET hourly ==
            IF timestamp % 3600 < 60
            THEN [breaker EXCEPT
                     !.price_1h_ago = state.last_oracle_price,
                     !.volume_1h_ago = state.volume_24h,
                     !.liquidity_1h_ago = state.floor_liquidity]
            ELSE breaker
    IN  IF timestamp % 86400 < 60
        THEN [hourly EXCEPT
                 !.price_24h_ago = state.last_oracle_price,
                 !.volume_24h_ago = state.volume_24h,
                 !.supply_24h_ago = supply]
        ELSE hourly

\* a trip that pauses from High upwards
tripped_program_state_pausing_high(state, severity) ==
    LET active == [state EXCEPT !.circuit_breaker_active = TRUE]
    IN  IF severity \in {"Critical", "High"}
        THEN [active EXCEPT !.emergency_pause = TRUE,
                            !.buyback_enabled = FALSE]
        ELSE active

\* fn trip_circuit_breaker: the ProgramState it leaves
tripped_program_state(state, severity) ==
    LET active == [state EXCEPT !.circuit_breaker_active = TRUE]
    IN  CASE severity = "Critical" ->
                 [active EXCEPT !.emergency_pause = TRUE,
                                !.buyback_enabled = FALSE]
          [] severity = "High" -> [active EXCEPT !.buyback_enabled = FALSE]
          [] OTHER -> active

\* fn trip_circuit_breaker: the CircuitBreakerState it leaves
tripped_circuit_breaker(breaker, severity, condition, timestamp) ==
    [breaker EXCEPT
        !.last_trip_timestamp = timestamp,
        !.last_trip_severity = severity,
        !.last_trip_condition = condition,
        !.trip_count = @ + 1]

\* the selection with a later check replacing an equal severity
RECURSIVE max_severity_or_equal(_, _)
max_severity_or_equal(checks, selected) ==
    IF checks = << >> THEN selected
    ELSE max_severity_or_equal(Tail(checks),
             IF /\ Head(checks)[1] # "None"
                /\ \/ selected[1] = "None"
                   \/ severity_to_u8(Head(checks)[1]) >= severity_to_u8(selected[1])
             THEN Head(checks)
             ELSE selected)

\* check_conditions_handler, the checks in their order: a later check
\* replaces the selection only with a strictly higher severity
RECURSIVE max_severity(_, _)
max_severity(checks, selected) ==
    IF checks = << >> THEN selected
    ELSE max_severity(Tail(checks),
             IF /\ Head(checks)[1] # "None"
                /\ \/ selected[1] = "None"
                   \/ severity_to_u8(Head(checks)[1]) > severity_to_u8(selected[1])
             THEN Head(checks)
             ELSE selected)

\* check_conditions_handler
check_conditions_handler ==
    /\ UNCHANGED outside_token
    /\ LET updated == update_historical_data(circuit_breaker, program_state,
                                             mint_supply, unix_timestamp)
           triggered ==
               max_severity(
                   << <<check_price_volatility(updated,
                            program_state.last_oracle_price), "PriceVolatility">>,
                      <<check_volume_spike(updated, program_state.volume_24h),
                        "VolumeSpike">>,
                      <<check_supply_change(updated, mint_supply),
                        "SupplyChange">>,
                      <<check_liquidity_drain(updated,
                            program_state.floor_liquidity), "LiquidityDrain">> >>,
                   <<"None", "None">>)
       IN  IF program_state.circuit_breaker_active
              /\ can_reset(updated, unix_timestamp)
           THEN /\ program_state' =
                       [program_state EXCEPT !.circuit_breaker_active = FALSE]
                /\ circuit_breaker' = updated
           ELSE IF program_state.circuit_breaker_active
           THEN /\ circuit_breaker' = updated
                /\ UNCHANGED program_state
           ELSE IF triggered[1] # "None"
           THEN /\ updated.trip_count < MaxTrips
                /\ program_state' =
                       tripped_program_state(program_state, triggered[1])
                /\ circuit_breaker' =
                       tripped_circuit_breaker(updated, triggered[1],
                                               triggered[2], unix_timestamp)
           ELSE /\ circuit_breaker' = updated
                /\ UNCHANGED program_state
    /\ UNCHANGED <<stake_state, owner_token_account, stake_vault,
                   floor_treasury_vault, mint_supply, unix_timestamp>>

\* manual_trip_handler
manual_trip_handler(severity) ==
    /\ UNCHANGED outside_token
    /\ ~program_state.circuit_breaker_active
    /\ circuit_breaker.trip_count < MaxTrips
    /\ program_state' = tripped_program_state(program_state, severity)
    /\ circuit_breaker' =
           tripped_circuit_breaker(circuit_breaker, severity, "ManualTrigger",
                                   unix_timestamp)
    /\ UNCHANGED <<stake_state, owner_token_account, stake_vault,
                   floor_treasury_vault, mint_supply, unix_timestamp>>

\* manual_reset_handler
manual_reset_handler ==
    /\ UNCHANGED outside_token
    /\ program_state.circuit_breaker_active
    /\ unix_timestamp - circuit_breaker.last_trip_timestamp
           >= get_cooldown_duration(circuit_breaker,
                                    circuit_breaker.last_trip_severity)
    /\ program_state' =
           LET reset == [program_state EXCEPT !.circuit_breaker_active = FALSE]
           IN  CASE circuit_breaker.last_trip_severity = "Critical" ->
                        [reset EXCEPT !.emergency_pause = FALSE,
                                      !.buyback_enabled = TRUE]
                 [] circuit_breaker.last_trip_severity = "High" ->
                        [reset EXCEPT !.buyback_enabled = TRUE]
                 [] OTHER -> reset
    /\ UNCHANGED <<stake_state, owner_token_account, stake_vault,
                   floor_treasury_vault, mint_supply, circuit_breaker,
                   unix_timestamp>>

\* admin::trigger_circuit_breaker_handler
trigger_circuit_breaker_handler ==
    /\ UNCHANGED outside_token
    /\ ~program_state.circuit_breaker_active
    /\ program_state' = [program_state EXCEPT
           !.circuit_breaker_active = TRUE,
           !.buyback_enabled = FALSE]
    /\ UNCHANGED <<stake_state, owner_token_account, stake_vault,
                   floor_treasury_vault, mint_supply, circuit_breaker,
                   unix_timestamp>>

\* admin::reset_circuit_breaker_handler
reset_circuit_breaker_handler ==
    /\ UNCHANGED outside_token
    /\ program_state.circuit_breaker_active
    /\ program_state' = [program_state EXCEPT
           !.circuit_breaker_active = FALSE,
           !.buyback_enabled = TRUE]
    /\ UNCHANGED <<stake_state, owner_token_account, stake_vault,
                   floor_treasury_vault, mint_supply, circuit_breaker,
                   unix_timestamp>>

\* oracle_update::handler
oracle_update ==
    /\ UNCHANGED outside_token
    /\ ~program_state.circuit_breaker_active
    /\ program_state' = [program_state EXCEPT
           !.last_oracle_price = MOCK_PRICE,
           !.last_oracle_update = unix_timestamp]
    /\ UNCHANGED <<stake_state, owner_token_account, stake_vault,
                   floor_treasury_vault, mint_supply, circuit_breaker,
                   unix_timestamp>>

\* the Clock sysvar moves to a later reading
BreakerAdvanceClock ==
    /\ UNCHANGED outside_token
    /\ \E now \in BreakerClockReadings :
           now > unix_timestamp /\ unix_timestamp' = now
    /\ UNCHANGED <<program_state, stake_state, owner_token_account, stake_vault,
                   floor_treasury_vault, mint_supply, circuit_breaker>>

\* the accounts after initialize and initialize_circuit_breaker
BreakerInit ==
    /\ \E price \in InitialFloorPrices :
           program_state = [ProgramStateInit EXCEPT !.last_oracle_price = price]
    /\ stake_state = [o \in TokenOwners |-> StakeStateInit]
    /\ owner_token_account = [o \in TokenOwners |-> OwnerFunds]
    /\ stake_vault = VaultReserve
    /\ floor_treasury_vault = <<>>
    /\ mint_supply = Add(VaultReserve, Mul(N(NumTokenOwners), OwnerFunds))
    /\ circuit_breaker = CircuitBreakerStateInit
    /\ unix_timestamp = GenesisTime
    /\ BondInit /\ InfluencerInit /\ PidAtRest /\ GovernanceAtRest
    /\ user_sector_token_account = [s \in Stakers |-> <<>>]

BreakerNext ==
    \/ check_conditions_handler
    \/ \E severity \in Severities : manual_trip_handler(severity)
    \/ manual_reset_handler
    \/ trigger_circuit_breaker_handler
    \/ reset_circuit_breaker_handler
    \/ oracle_update
    \/ \E paused \in BOOLEAN : set_emergency_pause(paused)
    \/ BreakerAdvanceClock

-----------------------------------------------------------------------------
(* The breaker's signals over drawn measurements: the monitored values and *)
(* the snapshots check_conditions_handler compares them with are drawn     *)
(* from sets that put each signal below its threshold and in each of its   *)
(* severity bands.                                                         *)

\* last_oracle_price against a price_1h_ago of InitialFloorPrice: a move of
\* 0, 6000, 11000 and 16000 bps
SignalPrices == {10000, 16000, 21000, 26000}

\* volume_24h against a volume_1h_ago of 1: a ratio of 0, 15, 25, 40 and 60
SignalVolumes == {<<>>, N(15), N(25), N(40), N(60)}

\* the mint's supply against supply_24h_ago: a change of 0, 250, 450 and
\* 650 bps
SignalSupplyChanges == {0, 250, 450, 650}

\* floor_liquidity against a liquidity_1h_ago of 10000: a drain of 0, 2500,
\* 4500 and 7000 bps
SignalLiquidities == {N(10000), N(7500), N(5500), N(3000)}

\* mid-hour readings, the second a Medium cooldown after the first
SignalClockReadings == {GenesisTime, GenesisTime + 3600}

SignalInit ==
    /\ \E price \in SignalPrices : \E volume \in SignalVolumes :
       \E liquidity \in SignalLiquidities : \E change \in SignalSupplyChanges :
           LET supply_24h_ago == Add(VaultReserve, Mul(N(NumTokenOwners), OwnerFunds))
           IN  /\ program_state =
                      [ProgramStateInit EXCEPT !.last_oracle_price = price,
                                               !.volume_24h = volume,
                                               !.floor_liquidity = liquidity]
               /\ mint_supply =
                      Div(Mul(supply_24h_ago, N(10000 + change)), N(10000))
               /\ circuit_breaker =
                      [CircuitBreakerStateInit EXCEPT
                          !.price_1h_ago = InitialFloorPrice,
                          !.volume_1h_ago = N(1),
                          !.supply_24h_ago = supply_24h_ago,
                          !.liquidity_1h_ago = N(10000)]
    /\ stake_state = [o \in TokenOwners |-> StakeStateInit]
    /\ owner_token_account = [o \in TokenOwners |-> OwnerFunds]
    /\ stake_vault = VaultReserve
    /\ floor_treasury_vault = <<>>
    /\ unix_timestamp = GenesisTime
    /\ BondInit /\ InfluencerInit /\ PidAtRest /\ GovernanceAtRest
    /\ user_sector_token_account = [s \in Stakers |-> <<>>]

\* the Clock sysvar moves to a later reading
SignalAdvanceClock ==
    /\ UNCHANGED outside_token
    /\ \E now \in SignalClockReadings :
           now > unix_timestamp /\ unix_timestamp' = now
    /\ UNCHANGED <<program_state, stake_state, owner_token_account, stake_vault,
                   floor_treasury_vault, mint_supply, circuit_breaker>>

SignalNext ==
    \/ check_conditions_handler
    \/ manual_reset_handler
    \/ reset_circuit_breaker_handler
    \/ SignalAdvanceClock

SignalSpec == SignalInit /\ [][SignalNext]_vars

-----------------------------------------------------------------------------
(* twist-token PID supply control: state/pid_controller.rs and             *)
(* instructions/pid_control.rs.                                            *)

\* constants.rs
ORACLE_STALENESS_THRESHOLD == 60

\* supply adjustments the model lets the controller count
MaxAdjustments == 2

\* the tokens an executor holds: 60 bps of the supply, enough for one burn at
\* the burn rate of 50 bps and too few for a second burn after it
ExecutorFunds == N(12000000)

\* initial_floor_price values the program is initialized with: no price, a
\* price far below the targets, one 500 above the target 50050, one far above
PidInitialPrices == {0, 10000, 50550, 90000}

\* the Clock::get() readings transactions see: initialization, 100 and 130
\* seconds later (inside and outside twice the oracle staleness threshold),
\* and an hour later
PidClockReadings ==
    {GenesisTime, GenesisTime + 100, GenesisTime + 130, GenesisTime + 3600}

\* calculate_adjustment, the cooldown check without its comparison
cooldown_elapsed_unchecked(controller, current_timestamp) == TRUE

\* calculate_adjustment, the cooldown check
cooldown_elapsed(controller, current_timestamp) ==
    current_timestamp - controller.last_adjustment_timestamp
        >= controller.adjustment_cooldown

\* the dead band measured in price units rather than as a fraction of the
\* target
within_tolerance_of_bps(controller, error) ==
    Abs(error) < controller.price_tolerance_bps \div 10000

\* calculate_adjustment, the dead band
within_tolerance(controller, error) ==
    Abs(error) <
        (controller.target_price * controller.price_tolerance_bps) \div 10000

\* the adjustment type with the sign convention reversed
adjustment_type_of_reversed(output_bps) ==
    IF output_bps > 0 THEN "Mint" ELSE "Burn"

\* calculate_adjustment, the adjustment type of a clamped output
adjustment_type_of(output_bps) ==
    IF output_bps > 0 THEN "Burn" ELSE "Mint"

\* the adjustment in basis points without the rate limit
rate_unlimited(output_bps, max_rate_bps) == output_bps

\* calculate_adjustment, adjustment_bps: the output within the rate limit
rate_limited(output_bps, max_rate_bps) ==
    IF output_bps < 0 - Abs(max_rate_bps) THEN 0 - Abs(max_rate_bps)
    ELSE IF output_bps > Abs(max_rate_bps) THEN Abs(max_rate_bps)
    ELSE output_bps

\* calculate_adjustment, the integral after the anti-windup clamp
updated_integral(controller, error, current_timestamp) ==
    LET dt == IF current_timestamp - controller.last_update_timestamp > 1
              THEN current_timestamp - controller.last_update_timestamp
              ELSE 1
    IN  SignedClamp(
            SaturatingAddI128(controller.integral, SignedMul(S(error), S(dt))),
            controller.integral_min, controller.integral_max)

\* calculate_adjustment, output_bps: the PID output clamped to the output
\* limits
clamped_output(controller, error, current_timestamp) ==
    LET dt == IF current_timestamp - controller.last_update_timestamp > 1
              THEN current_timestamp - controller.last_update_timestamp
              ELSE 1
        integral == updated_integral(controller, error, current_timestamp)
        derivative ==
            IF controller.last_update_timestamp > 0
            THEN SignedDiv(
                     SignedMul(S(error - controller.previous_error), S(1000)),
                     S(dt))
            ELSE S(0)
        output ==
            SignedAdd(
                SignedAdd(
                    SignedDiv(SignedMul(S(controller.kp), S(error)), S(10000)),
                    SignedDiv(SignedMul(S(controller.ki), integral), S(10000))),
                SignedDiv(SignedMul(S(controller.kd), derivative), S(10000)))
    IN  IntOf(SignedClamp(output, S(controller.output_min),
                          S(controller.output_max)))

\* calculate_adjustment, adjustment_amount: the tokens of a clamped output
adjustment_amount_of(controller, output_bps, current_supply) ==
    LET max_rate_bps == IF output_bps > 0
                        THEN controller.max_burn_rate_bps
                        ELSE 0 - controller.max_mint_rate_bps
        adjustment_bps == rate_limited(output_bps, max_rate_bps)
    IN  AsU64(Div(Mul(current_supply, N(Abs(adjustment_bps))), N(10000)))

\* calculate_adjustment, "update state for next iteration" and "update totals"
adjusted_controller(controller, error, integral, adjustment_type, adjustment_amount, current_timestamp) ==
    [controller EXCEPT
        !.integral = integral,
        !.previous_error = error,
        !.last_update_timestamp = current_timestamp,
        !.last_adjustment_timestamp = current_timestamp,
        !.last_adjustment_amount = adjustment_amount,
        !.last_adjustment_type = adjustment_type,
        !.adjustment_count = @ + 1,
        !.total_minted =
            IF adjustment_type = "Mint" THEN Add(@, adjustment_amount) ELSE @,
        !.total_burned =
            IF adjustment_type = "Burn" THEN Add(@, adjustment_amount) ELSE @]

\* calculate_adjustment past the dead band: the SupplyAdjustment of a clamped
\* output and the controller it leaves
supply_adjustment(controller, error, output_bps, current_supply, current_timestamp) ==
    [ result |-> "Ok",
      adjustment_type |-> adjustment_type_of(output_bps),
      amount |-> adjustment_amount_of(controller, output_bps, current_supply),
      controller |->
          adjusted_controller(
              controller, error,
              updated_integral(controller, error, current_timestamp),
              adjustment_type_of(output_bps),
              adjustment_amount_of(controller, output_bps, current_supply),
              current_timestamp) ]

\* PIDControllerState::calculate_adjustment: its Result, the SupplyAdjustment
\* and the controller it leaves
calculate_adjustment(controller, current_price, current_supply, current_timestamp) ==
    IF ~cooldown_elapsed(controller, current_timestamp)
    THEN [ result |-> "AdjustmentTooSoon",
           adjustment_type |-> "None",
           amount |-> <<>>,
           controller |-> controller ]
    ELSE IF within_tolerance(controller,
                             controller.target_price - current_price)
    THEN [ result |-> "Ok",
           adjustment_type |-> "None",
           amount |-> <<>>,
           controller |-> controller ]
    ELSE supply_adjustment(
             controller, controller.target_price - current_price,
             clamped_output(controller, controller.target_price - current_price,
                            current_timestamp),
             current_supply, current_timestamp)

\* execute_handler, the staleness check with the threshold not doubled
oracle_stale_at_threshold(state, current_timestamp) ==
    current_timestamp - state.last_oracle_update > ORACLE_STALENESS_THRESHOLD

\* execute_handler, the staleness check
oracle_stale(state, current_timestamp) ==
    current_timestamp - state.last_oracle_update
        > ORACLE_STALENESS_THRESHOLD * 2

\* execute_handler without the emergency pause check
execute_outcome_through_pause(executor, adjustment) ==
    IF program_state.circuit_breaker_active THEN "CircuitBreakerActive"
    ELSE IF ~(program_state.last_oracle_price > 0) THEN "InvalidOracleData"
    ELSE IF oracle_stale(program_state, unix_timestamp) THEN "OracleStale"
    ELSE IF adjustment.result # "Ok" THEN adjustment.result
    ELSE IF /\ adjustment.adjustment_type = "Mint"
            /\ ~FitsU64(Add(mint_supply, adjustment.amount))
    THEN "TokenOverflow"
    ELSE IF /\ adjustment.adjustment_type = "Burn"
            /\ Lt(owner_token_account[executor], adjustment.amount)
    THEN "TokenInsufficientFunds"
    ELSE "Ok"

\* execute_handler: the Result of execute_pid_control signed by `executor`,
\* whose token account is the one tokens are minted to or burned from, given
\* what calculate_adjustment returned
execute_outcome(executor, adjustment) ==
    IF program_state.circuit_breaker_active THEN "CircuitBreakerActive"
    ELSE IF program_state.emergency_pause THEN "EmergencyPauseActive"
    ELSE IF ~(program_state.last_oracle_price > 0) THEN "InvalidOracleData"
    ELSE IF oracle_stale(program_state, unix_timestamp) THEN "OracleStale"
    ELSE IF adjustment.result # "Ok" THEN adjustment.result
    ELSE IF /\ adjustment.adjustment_type = "Mint"
            /\ ~FitsU64(Add(mint_supply, adjustment.amount))
    THEN "TokenOverflow"
    ELSE IF /\ adjustment.adjustment_type = "Burn"
            /\ Lt(owner_token_account[executor], adjustment.amount)
    THEN "TokenInsufficientFunds"
    ELSE "Ok"

\* execute_handler: the accounts after a successful execute
executed(executor, adjustment) ==
    /\ adjustment.adjustment_type # "None" =>
           pid_controller.adjustment_count < MaxAdjustments
    /\ pid_controller' = adjustment.controller
    /\ CASE adjustment.adjustment_type = "Mint" ->
                /\ mint_supply' = Add(mint_supply, adjustment.amount)
                /\ owner_token_account' =
                       [owner_token_account EXCEPT
                           ![executor] = Add(@, adjustment.amount)]
         [] adjustment.adjustment_type = "Burn" ->
                /\ mint_supply' = Sub(mint_supply, adjustment.amount)
                /\ owner_token_account' =
                       [owner_token_account EXCEPT
                           ![executor] = Sub(@, adjustment.amount)]
         [] OTHER -> UNCHANGED <<mint_supply, owner_token_account>>

\* execute_handler
execute_handler(executor) ==
    /\ UNCHANGED outside_pid
    /\ \E adjustment \in
              {calculate_adjustment(pid_controller,
                                    program_state.last_oracle_price,
                                    mint_supply, unix_timestamp)} :
       \E outcome \in {execute_outcome(executor, adjustment)} :
           /\ execute_result' = outcome
           /\ IF outcome = "Ok"
              THEN executed(executor, adjustment)
              ELSE UNCHANGED <<pid_controller, mint_supply, owner_token_account>>
    /\ UNCHANGED <<program_state, stake_state, stake_vault,
                   floor_treasury_vault, circuit_breaker, unix_timestamp>>

\* update_parameters_handler
update_parameters_handler(params) ==
    /\ UNCHANGED outside_pid
    /\ pid_controller' =
           [pid_controller EXCEPT
               !.kp = params.kp,
               !.ki = params.ki,
               !.kd = params.kd,
               !.target_price = params.target_price,
               !.price_tolerance_bps = params.price_tolerance_bps,
               !.max_mint_rate_bps = params.max_mint_rate_bps,
               !.max_burn_rate_bps = params.max_burn_rate_bps,
               !.adjustment_cooldown = params.adjustment_cooldown,
               !.integral_min = params.integral_min,
               !.integral_max = params.integral_max,
               !.output_min = params.output_min,
               !.output_max = params.output_max]
    /\ UNCHANGED <<tvars, execute_result>>

\* reset_handler, PIDControllerState::reset
reset_handler ==
    /\ UNCHANGED outside_pid
    /\ pid_controller' =
           [pid_controller EXCEPT
               !.integral = S(0),
               !.previous_error = 0,
               !.last_update_timestamp = 0]
    /\ UNCHANGED <<tvars, execute_result>>

\* the Clock sysvar moves to a later reading
PidAdvanceClock ==
    /\ UNCHANGED <<outside_pid, pvars>>
    /\ \E now \in PidClockReadings :
           now > unix_timestamp /\ unix_timestamp' = now
    /\ UNCHANGED <<program_state, stake_state, owner_token_account, stake_vault,
                   floor_treasury_vault, mint_supply, circuit_breaker>>

\* the accounts after initialize and initialize_pid_controller; each
\* executor's token account holds ExecutorFunds of a supply of 2 TWIST
PidInit ==
    /\ \E price \in PidInitialPrices :
           program_state = [ProgramStateInit EXCEPT !.last_oracle_price = price]
    /\ \E params \in PidParamChoices :
           pid_controller = PIDControllerStateInit(params)
    /\ execute_result = "None"
    /\ stake_state = [o \in TokenOwners |-> StakeStateInit]
    /\ owner_token_account = [o \in TokenOwners |-> ExecutorFunds]
    /\ stake_vault = VaultReserve
    /\ floor_treasury_vault = <<>>
    /\ mint_supply = Add(ONE_TWIST, ONE_TWIST)
    /\ circuit_breaker = CircuitBreakerStateInit
    /\ unix_timestamp = GenesisTime
    /\ BondInit /\ InfluencerInit /\ GovernanceAtRest
    /\ user_sector_token_account = [s \in Stakers |-> <<>>]

PidNext ==
    \/ \E executor \in TokenOwners : execute_handler(executor)
    \/ \E params \in PidParamChoices : update_parameters_handler(params)
    \/ reset_handler
    \/ oracle_update
    \/ trigger_circuit_breaker_handler
    \/ \E paused \in BOOLEAN : set_emergency_pause(paused)
    \/ PidAdvanceClock

PidSpec == PidInit /\ [][PidNext]_vars

-----------------------------------------------------------------------------
(* twist-token multisig: propose, approve, execute and cancel of           *)
(* instructions/multisig.rs.                                               *)

mvars == <<multisig_config, multisig_transaction, invoked>>
vvars == <<vesting_schedule, vesting_vault, beneficiary_token_account, authority_token_account>>
wvars == <<vau_processor, website>>

\* the accounts no multisig instruction is given; the Clock sysvar is read
outside_multisig == <<bvars, ivars, user_sector_token_account, tvars, pvars, vvars, wvars>>

\* transactions are proposed while transaction_count is below this
MaxTransactions == 1
\* delay_seconds offered to propose_transaction
MultisigDelays == {0, DAY}
MultisigClockReadings == {GenesisTime, GenesisTime + DAY}

\* MultisigConfig::is_member
is_member(config, pubkey) == pubkey \in config.members

\* MultisigTransaction::has_signed
has_signed(transaction, signer) ==
    \E k \in DOMAIN transaction.signers : transaction.signers[k] = signer

\* MultisigTransaction::signature_count
signature_count(transaction) == Len(transaction.signers)

\* can_execute without the timelock
can_execute_before_eta(transaction, threshold, current_time) ==
    /\ ~transaction.executed
    /\ ~transaction.cancelled
    /\ signature_count(transaction) >= threshold

\* MultisigTransaction::can_execute
can_execute(transaction, threshold, current_time) ==
    /\ ~transaction.executed
    /\ ~transaction.cancelled
    /\ signature_count(transaction) >= threshold
    /\ current_time >= transaction.eta

\* propose_transaction_handler: the transaction account is created at the
\* index transaction_count, signed by its proposer
propose_transaction_handler(proposer, delay_seconds) ==
    /\ UNCHANGED outside_multisig
    /\ multisig_config.initialized
    /\ is_member(multisig_config, proposer)
    /\ multisig_config.transaction_count < MaxTransactions
    /\ multisig_transaction' =
           (multisig_config.transaction_count :>
               [ transaction_index |-> multisig_config.transaction_count,
                 proposer |-> proposer,
                 signers |-> <<proposer>>,
                 executed |-> FALSE,
                 cancelled |-> FALSE,
                 created_at |-> unix_timestamp,
                 executed_at |-> 0,
                 eta |-> unix_timestamp + delay_seconds ])
           @@ multisig_transaction
    /\ invoked' = (multisig_config.transaction_count :> 0) @@ invoked
    /\ multisig_config' = [multisig_config EXCEPT
           !.transaction_count = @ + 1,
           !.pending_transactions = @ + 1]

\* approve_transaction_handler
approve_transaction_handler(signer, transaction_index) ==
    /\ UNCHANGED outside_multisig
    /\ is_member(multisig_config, signer)
    /\ transaction_index \in DOMAIN multisig_transaction
    /\ ~multisig_transaction[transaction_index].executed
    /\ ~multisig_transaction[transaction_index].cancelled
    /\ ~has_signed(multisig_transaction[transaction_index], signer)
    /\ multisig_transaction' = [multisig_transaction EXCEPT
           ![transaction_index].signers = Append(@, signer)]
    /\ UNCHANGED <<multisig_config, invoked>>

\* execute_transaction_handler whose invoke_signed returns Ok: the stored
\* instruction runs once more (a failing invoke fails the whole instruction)
execute_transaction_handler(executor, transaction_index) ==
    /\ UNCHANGED outside_multisig
    /\ transaction_index \in DOMAIN multisig_transaction
    /\ can_execute(multisig_transaction[transaction_index],
                   multisig_config.threshold, unix_timestamp)
    /\ invoked' = [invoked EXCEPT ![transaction_index] = @ + 1]
    /\ multisig_transaction' = [multisig_transaction EXCEPT
           ![transaction_index].executed = TRUE,
           ![transaction_index].executed_at = unix_timestamp]
    /\ multisig_config' = [multisig_config EXCEPT
           !.pending_transactions = IF @ > 0 THEN @ - 1 ELSE 0]

\* cancel_transaction_handler
cancel_transaction_handler(canceller, transaction_index) ==
    /\ UNCHANGED outside_multisig
    /\ is_member(multisig_config, canceller)
    /\ transaction_index \in DOMAIN multisig_transaction
    /\ ~multisig_transaction[transaction_index].executed
    /\ ~multisig_transaction[transaction_index].cancelled
    /\ \/ multisig_transaction[transaction_index].proposer = canceller
       \/ signature_count(multisig_transaction[transaction_index])
              < multisig_config.threshold
    /\ multisig_transaction' = [multisig_transaction EXCEPT
           ![transaction_index].cancelled = TRUE]
    /\ multisig_config' = [multisig_config EXCEPT
           !.pending_transactions = IF @ > 0 THEN @ - 1 ELSE 0]
    /\ UNCHANGED invoked

\* the Clock sysvar moves to a later reading
MultisigAdvanceClock ==
    /\ UNCHANGED <<bvars, ivars, user_sector_token_account, pvars, gvars>>
    /\ \E now \in MultisigClockReadings :
           now > unix_timestamp /\ unix_timestamp' = now
    /\ UNCHANGED <<program_state, stake_state, owner_token_account, stake_vault,
                   floor_treasury_vault, mint_supply, circuit_breaker>>

TransactionIndexes == 0..MaxTransactions

MultisigNext ==
    \/ \E proposer \in MultisigKeys : \E delay_seconds \in MultisigDelays :
          propose_transaction_handler(proposer, delay_seconds)
    \/ \E signer \in MultisigKeys : \E transaction_index \in TransactionIndexes :
          approve_transaction_handler(signer, transaction_index)
    \/ \E executor \in MultisigKeys : \E transaction_index \in TransactionIndexes :
          execute_transaction_handler(executor, transaction_index)
    \/ \E canceller \in MultisigKeys : \E transaction_index \in TransactionIndexes :
          cancel_transaction_handler(canceller, transaction_index)
    \/ MultisigAdvanceClock

-----------------------------------------------------------------------------
(* twist-token vesting: create, release and revoke of                      *)
(* instructions/vesting.rs, one schedule per beneficiary under the one     *)
(* authority.                                                              *)

\* the accounts no vesting instruction is given; the Clock sysvar is read
outside_vesting == <<bvars, ivars, user_sector_token_account, tvars, pvars, mvars, wvars>>

\* VestingParams offered to create_vesting_schedule
VestingTotals == {N(300), N(500)}
VestingTimings ==
    { [start |-> GenesisTime, cliff |-> GenesisTime + 10 * DAY,
       end |-> GenesisTime + 30 * DAY],
      [start |-> GenesisTime, cliff |-> GenesisTime,
       end |-> GenesisTime + 40 * DAY],
      [start |-> GenesisTime + 10 * DAY, cliff |-> GenesisTime + 10 * DAY,
       end |-> GenesisTime + 40 * DAY] }
VestingParamChoices ==
    { [ total_amount |-> total, start_timestamp |-> timing.start,
        cliff_timestamp |-> timing.cliff, end_timestamp |-> timing.end,
        revocable |-> revocable ] :
      total \in VestingTotals, timing \in VestingTimings, revocable \in BOOLEAN }

\* calculate_vested_amount with no cap at end_timestamp
calculate_vested_amount_uncapped(schedule, current_timestamp) ==
    IF schedule.revoked
    THEN [err |-> FALSE, amount |-> schedule.released_amount]
    ELSE IF current_timestamp < schedule.cliff_timestamp
    THEN [err |-> FALSE, amount |-> <<>>]
    ELSE [err |-> ~FitsU64(Mul(schedule.total_amount,
                               N(current_timestamp - schedule.cliff_timestamp))),
          amount |-> Div(Mul(schedule.total_amount,
                             N(current_timestamp - schedule.cliff_timestamp)),
                         N(schedule.end_timestamp - schedule.cliff_timestamp))]

\* VestingSchedule::calculate_vested_amount; err is the Err of safe_mul
calculate_vested_amount(schedule, current_timestamp) ==
    IF schedule.revoked
    THEN [err |-> FALSE, amount |-> schedule.released_amount]
    ELSE IF current_timestamp < schedule.cliff_timestamp
    THEN [err |-> FALSE, amount |-> <<>>]
    ELSE IF current_timestamp >= schedule.end_timestamp
    THEN [err |-> FALSE, amount |-> schedule.total_amount]
    ELSE [err |-> ~FitsU64(Mul(schedule.total_amount,
                               N(current_timestamp - schedule.cliff_timestamp))),
          amount |-> Div(Mul(schedule.total_amount,
                             N(current_timestamp - schedule.cliff_timestamp)),
                         N(schedule.end_timestamp - schedule.cliff_timestamp))]

\* create_handler: the schedule and its vault are created, the vault funded
\* with total_amount from the authority's account
create_handler(beneficiary, params) ==
    /\ UNCHANGED outside_vesting
    /\ beneficiary \notin DOMAIN vesting_schedule
    /\ Ge(authority_token_account, params.total_amount)
    /\ params.start_timestamp >= unix_timestamp
    /\ params.cliff_timestamp >= params.start_timestamp
    /\ params.end_timestamp > params.cliff_timestamp
    /\ ~IsZero(params.total_amount)
    /\ vesting_schedule' =
           (beneficiary :>
               [ total_amount |-> params.total_amount,
                 released_amount |-> <<>>,
                 start_timestamp |-> params.start_timestamp,
                 cliff_timestamp |-> params.cliff_timestamp,
                 end_timestamp |-> params.end_timestamp,
                 revocable |-> params.revocable,
                 revoked |-> FALSE ])
           @@ vesting_schedule
    /\ authority_token_account' = Sub(authority_token_account, params.total_amount)
    /\ vesting_vault' = (beneficiary :> params.total_amount) @@ vesting_vault
    /\ UNCHANGED beneficiary_token_account

\* what release_vested_tokens returns to the beneficiary: the constraints of
\* ReleaseVestedTokens, then release_handler
ReleaseResult(beneficiary) ==
    IF beneficiary \notin DOMAIN vesting_schedule THEN "AccountNotInitialized"
    ELSE IF vesting_schedule[beneficiary].revoked THEN "VestingAlreadyRevoked"
    ELSE IF unix_timestamp < vesting_schedule[beneficiary].cliff_timestamp
    THEN "VestingNotStarted"
    ELSE IF calculate_vested_amount(vesting_schedule[beneficiary], unix_timestamp).err
    THEN "MathOverflow"
    ELSE IF Lt(calculate_vested_amount(vesting_schedule[beneficiary], unix_timestamp).amount,
               vesting_schedule[beneficiary].released_amount)
    THEN "MathOverflow"
    ELSE IF IsZero(Sub(calculate_vested_amount(vesting_schedule[beneficiary], unix_timestamp).amount,
                       vesting_schedule[beneficiary].released_amount))
    THEN "NoRewardsToClaim"
    ELSE IF Lt(vesting_vault[beneficiary],
               Sub(calculate_vested_amount(vesting_schedule[beneficiary], unix_timestamp).amount,
                   vesting_schedule[beneficiary].released_amount))
    THEN "InsufficientFunds"
    ELSE "Ok"

\* release_handler
release_handler(beneficiary) ==
    /\ UNCHANGED outside_vesting
    /\ ReleaseResult(beneficiary) = "Ok"
    /\ \E releasable_amount \in
           {Sub(calculate_vested_amount(vesting_schedule[beneficiary], unix_timestamp).amount,
                vesting_schedule[beneficiary].released_amount)} :
          /\ vesting_schedule' = [vesting_schedule EXCEPT
                 ![beneficiary].released_amount = Add(@, releasable_amount)]
          /\ vesting_vault' = [vesting_vault EXCEPT
                 ![beneficiary] = Sub(@, releasable_amount)]
          /\ beneficiary_token_account' = [beneficiary_token_account EXCEPT
                 ![beneficiary] = Add(@, releasable_amount)]
    /\ UNCHANGED authority_token_account

\* revoke_handler: the amount not vested at the revocation goes back to the
\* authority
revoke_handler(beneficiary) ==
    /\ UNCHANGED outside_vesting
    /\ beneficiary \in DOMAIN vesting_schedule
    /\ vesting_schedule[beneficiary].revocable
    /\ ~vesting_schedule[beneficiary].revoked
    /\ ~calculate_vested_amount(vesting_schedule[beneficiary], unix_timestamp).err
    /\ Le(calculate_vested_amount(vesting_schedule[beneficiary], unix_timestamp).amount,
          vesting_schedule[beneficiary].total_amount)
    /\ \E unvested_amount \in
           {Sub(vesting_schedule[beneficiary].total_amount,
                calculate_vested_amount(vesting_schedule[beneficiary], unix_timestamp).amount)} :
          /\ Ge(vesting_vault[beneficiary], unvested_amount)
          /\ vesting_schedule' = [vesting_schedule EXCEPT ![beneficiary].revoked = TRUE]
          /\ vesting_vault' = [vesting_vault EXCEPT
                 ![beneficiary] = Sub(@, unvested_amount)]
          /\ authority_token_account' = Add(authority_token_account, unvested_amount)
    /\ UNCHANGED beneficiary_token_account

VestingNext ==
    \/ \E beneficiary \in Beneficiaries : \E params \in VestingParamChoices :
          create_handler(beneficiary, params)
    \/ \E beneficiary \in Beneficiaries : release_handler(beneficiary)
    \/ \E beneficiary \in Beneficiaries : revoke_handler(beneficiary)
    \/ TokenAdvanceClock

-----------------------------------------------------------------------------
(* vau-processor: process_visitor_burn and update_website_metrics, for the *)
(* one registered website whose bond pool is the pool above.               *)

\* the accounts process_visitor_burn is not given
outside_vau == <<ivars, user_sector_token_account, tvars, pvars, mvars, vvars>>

\* the visitor's TWIST when the website is registered
VauVisitorFunds == 1000
\* unique_visitors is reported up to this count
MaxVisitors == 1
\* burn_amount offered: around the bounds of can_process_burn, and what is
\* left of the daily limit after a burn of max_burn_amount
VauBurnAmounts ==
    {N(VauMinBurn - 1), N(VauMaxBurn), N(VauMaxBurn + 1),
     N(VauDailyLimit - VauMaxBurn)}
VauClockReadings ==
    {GenesisTime, GenesisTime + DAY - 1, GenesisTime + DAY}
\* Option<bool> of UpdateMetricsParams
OptionBool == {"None", "Some(true)", "Some(false)"}

\* VAUProcessorState::can_process_burn
can_process_burn(processor, amount) ==
    /\ ~processor.paused
    /\ Ge(amount, processor.min_burn_amount)
    /\ Le(amount, processor.max_burn_amount)

\* WebsiteRegistry::needs_daily_reset
needs_daily_reset(site, current_timestamp) ==
    current_timestamp - site.last_daily_reset >= 86400

\* can_burn without the daily limit
can_burn_any_amount(site, amount, daily_limit) ==
    /\ site.active
    /\ site.verified

\* WebsiteRegistry::can_burn; the u64 sum wraps where the build lets it, and
\* the checked_add of the handler refuses such a burn either way
can_burn(site, amount, daily_limit) ==
    /\ site.active
    /\ site.verified
    /\ Le(AsU64(Add(site.daily_burn_amount, amount)), daily_limit)

\* the website after the daily reset of the handler, where one is due
after_daily_reset(site, current_timestamp) ==
    IF needs_daily_reset(site, current_timestamp)
    THEN [site EXCEPT !.daily_burn_amount = <<>>,
                      !.last_daily_reset = current_timestamp]
    ELSE site

\* processor_fee of the handler
processor_fee_of(burn_amount, processor) ==
    AsU64(Div(Mul(burn_amount, N(processor.processor_fee_bps)), N(10000)))

\* avg_burn_per_visitor as both handlers recompute it
avg_burn_of(site) ==
    IF IsZero(site.unique_visitors) THEN site.avg_burn_per_visitor
    ELSE AsU64(Div(site.total_twist_burned, site.unique_visitors))

\* process_visitor_burn whose CPI reaches distribute_yield of the bond pool
\* factory and returns Ok; any refusal of the CPI fails the instruction
process_visitor_burn(burn_amount) ==
    /\ UNCHANGED outside_vau
    /\ website.active
    /\ website.verified
    /\ Ge(burn_source, burn_amount)
    /\ can_process_burn(vau_processor, burn_amount)
    /\ can_burn(after_daily_reset(website, clock), burn_amount,
                vau_processor.daily_burn_limit_per_site)
    /\ Le(processor_fee_of(burn_amount, vau_processor), burn_amount)
    /\ FitsU64(Add(after_daily_reset(website, clock).daily_burn_amount, burn_amount))
    /\ \E processor_fee \in {processor_fee_of(burn_amount, vau_processor)} :
       \E amount_after_fee \in {Sub(burn_amount, processor_fee_of(burn_amount, vau_processor))} :
          /\ DistributeResult(amount_after_fee) = "Ok"
          /\ \E burn_portion \in {BurnPortion(amount_after_fee, factory_state.burn_percentage_bps)} :
             \E staker_portion \in {StakerPortion(amount_after_fee, factory_state.burn_percentage_bps)} :
                /\ burn_source' = Sub(burn_source, burn_portion)
                /\ bond_pool' = [Accumulated(bond_pool,
                                      RewardIncrement(staker_portion, bond_pool),
                                      YieldDelta(staker_portion, bond_pool))
                                  EXCEPT
                       !.total_yield_accumulated = Add(@, amount_after_fee),
                       !.total_yield_burned = Add(@, burn_portion),
                       !.total_yield_distributed = Add(@, staker_portion)]
                /\ factory_state' = [factory_state EXCEPT
                       !.total_burned_from_yield = Add(@, burn_portion),
                       !.total_distributed_to_stakers = Add(@, staker_portion)]
          /\ vau_processor' = [vau_processor EXCEPT
                 !.total_burns_processed = Add(@, N(1)),
                 !.total_twist_burned = Add(@, burn_amount),
                 !.total_fees_collected = Add(@, processor_fee)]
          /\ \E counted \in {[after_daily_reset(website, clock) EXCEPT
                                 !.total_burns = Add(@, N(1)),
                                 !.total_twist_burned = Add(@, burn_amount),
                                 !.daily_burn_amount = Add(@, burn_amount),
                                 !.last_burn_timestamp = clock]} :
                website' = [counted EXCEPT !.avg_burn_per_visitor = avg_burn_of(counted)]
    /\ UNCHANGED <<bond_position, staker_twist_account, pool_twist_vault,
                   pool_sector_token_account, clock>>

\* update_website_metrics handler, signed by the website's owner
update_website_metrics(unique_visitors_delta, verified, active) ==
    /\ UNCHANGED outside_vau
    /\ UNCHANGED <<bvars, vau_processor>>
    /\ Le(Add(website.unique_visitors, unique_visitors_delta), N(MaxVisitors))
    /\ \E updated \in {[website EXCEPT
                             !.unique_visitors = Add(@, unique_visitors_delta),
                             !.verified = IF verified = "None" THEN @
                                          ELSE verified = "Some(true)",
                             !.active = IF active = "None" THEN @
                                        ELSE active = "Some(true)"]} :
          website' = IF ~IsZero(updated.unique_visitors) /\ ~IsZero(updated.total_twist_burned)
                     THEN [updated EXCEPT !.avg_burn_per_visitor = avg_burn_of(updated)]
                     ELSE updated

\* the Clock sysvar moves to a later reading
VauAdvanceClock ==
    /\ UNCHANGED outside_bond
    /\ \E now \in VauClockReadings :
          /\ now > clock
          /\ clock' = now
    /\ UNCHANGED <<factory_state, bond_pool, bond_position, staker_twist_account,
                   pool_twist_vault, pool_sector_token_account, burn_source>>

\* the staker whose position lets the pool take yield
VauStakers == {1}

VauNext ==
    \/ \E s \in VauStakers : \E amount \in StakeChoices(s) : stake_in_pool(s, amount)
    \/ \E burn_amount \in VauBurnAmounts : process_visitor_burn(burn_amount)
    \/ \E unique_visitors_delta \in {<<>>, N(1)} :
       \E verified \in OptionBool : \E active \in OptionBool :
          update_website_metrics(unique_visitors_delta, verified, active)
    \/ VauAdvanceClock

-----------------------------------------------------------------------------
(* Specifications: one per program, the other program's accounts at rest.  *)

\* the accounts of the programs a specification leaves at rest
UserSectorInit == user_sector_token_account = [s \in Stakers |-> <<>>]

Init == BondInit /\ UserSectorInit /\ InfluencerInit /\ TokenInit

TokenStakingSpec == Init /\ [][TokenStakingNext]_vars

CircuitBreakerSpec == BreakerInit /\ [][BreakerNext]_vars

Spec == Init /\ [][BondNext]_vars

InfluencerSpec == Init /\ [][InfluencerNext]_vars

MultisigSpec == Init /\ [][MultisigNext]_vars

VestingSpec == Init /\ [][VestingNext]_vars

\* one owner stakes a base unit at a time until the account is full
FullOwners == {1}
FullStakeFunds == N(MAX_STAKES + 1)
FullStakeAmounts == {N(1)}

FullStateInit ==
    /\ program_state = ProgramStateInit
    /\ circuit_breaker = CircuitBreakerStateInit
    /\ unix_timestamp = GenesisTime
    /\ stake_state = [o \in TokenOwners |-> StakeStateInit]
    /\ owner_token_account = [o \in TokenOwners |-> FullStakeFunds]
    /\ stake_vault = VaultReserve
    /\ floor_treasury_vault = <<>>
    /\ mint_supply = Add(VaultReserve, Mul(N(NumTokenOwners), FullStakeFunds))
    /\ BondInit /\ UserSectorInit /\ InfluencerInit /\ PidAtRest /\ GovernanceAtRest

FullStateNext ==
    \/ \E owner \in FullOwners : \E amount \in FullStakeAmounts :
          token_stake(owner, amount, MIN_STAKE_PERIOD)
    \/ \E owner \in FullOwners : token_unstake(owner, 1)
    \/ TokenAdvanceClock

FullStateSpec == FullStateInit /\ [][FullStateNext]_vars

\* the bond pool with no position yet, the website registered and the
\* visitor funded
VauInit ==
    /\ factory_state = FactoryInit
    /\ bond_pool = PoolInit
    /\ bond_position = << >>
    /\ staker_twist_account = [s \in Stakers |-> StakerFunds(s)]
    /\ pool_twist_vault = <<>>
    /\ pool_sector_token_account = <<>>
    /\ burn_source = N(VauVisitorFunds)
    /\ clock = GenesisTime
    /\ UserSectorInit /\ InfluencerInit /\ TokenInit

VauSpec == VauInit /\ [][VauNext]_vars

\* A bond pool of large stakers receiving small yields: wallets of 5000 TWIST
\* and visitor burns of 40 base units.
LargeStakerFunds(s) == Add(Mul(N(5000), ONE_TWIST), N(s))
SmallBurnAmounts == {N(40)}
SmallVisitorFunds == 72

LargePoolInit ==
    /\ factory_state = FactoryInit
    /\ bond_pool = PoolInit
    /\ bond_position = << >>
    /\ staker_twist_account = [s \in Stakers |-> LargeStakerFunds(s)]
    /\ pool_twist_vault = <<>>
    /\ pool_sector_token_account = <<>>
    /\ burn_source = N(SmallVisitorFunds)
    /\ clock = GenesisTime
    /\ UserSectorInit /\ InfluencerInit /\ TokenInit

LargePoolNext ==
    \/ \E s \in Stakers : \E amount \in StakeChoices(s) : stake_in_pool(s, amount)
    \/ \E burn_amount \in SmallBurnAmounts : distribute_yield(burn_amount)
    \/ \E s \in Stakers : claim_rewards(s)
    \/ \E s \in Stakers : \E shares \in WithdrawChoices(s) : withdraw_stake(s, shares)
    \/ \E paused \in BOOLEAN : set_pool_paused(paused)
    \/ AdvanceClock

LargePoolSpec == LargePoolInit /\ [][LargePoolNext]_vars

\* A bond pool receiving the largest yields a u64 burn can carry: staker 1
\* holds the pool minimum, the others hold the largest stake whose
\* reward_debt still fits after the first such yield.
HugeBurnAmount == Mul(N(10), Mul(ONE_TWIST, ONE_TWIST))
HugeBurnAmounts == {HugeBurnAmount}
HugeVisitorFunds == Mul(N(2), BurnPortion(HugeBurnAmount, 9000))
HugeRewardPerShare ==
    Div(Mul(StakerPortion(HugeBurnAmount, 9000), PRECISION), ONE_TWIST)
HugeStakerFunds(s) ==
    IF s = 1 THEN ONE_TWIST
    ELSE Div(Sub(U128_MODULUS, N(1)), HugeRewardPerShare)

HugeYieldInit ==
    /\ factory_state = FactoryInit
    /\ bond_pool = PoolInit
    /\ bond_position = << >>
    /\ staker_twist_account = [s \in Stakers |-> HugeStakerFunds(s)]
    /\ pool_twist_vault = <<>>
    /\ pool_sector_token_account = <<>>
    /\ burn_source = HugeVisitorFunds
    /\ clock = GenesisTime
    /\ UserSectorInit /\ InfluencerInit /\ TokenInit

HugeYieldNext ==
    \/ \E s \in Stakers : \E amount \in StakeChoices(s) : stake_in_pool(s, amount)
    \/ \E burn_amount \in HugeBurnAmounts : distribute_yield(burn_amount)
    \/ \E s \in Stakers : claim_rewards(s)
    \/ \E s \in Stakers : \E shares \in WithdrawChoices(s) : withdraw_stake(s, shares)
    \/ \E paused \in BOOLEAN : set_pool_paused(paused)
    \/ AdvanceClock

HugeYieldSpec == HugeYieldInit /\ [][HugeYieldNext]_vars

\* A bond pool whose sector token mint had supply before create_bond_pool took
\* it over: staker 1 holds 1 sector token.  (The program itself mints sector
\* tokens to the pool's own account only, so with no such supply early_unwrap
\* moves nothing and the other specifications leave it out.)
UserSectorFunds(s) == IF s = 1 THEN ONE_TWIST ELSE <<>>
UnwrapAmounts == {ONE_TWIST}
UnwrapBurnAmounts == {N(12)}

\* early_unwrap::handler, the penalty of `amount`
UnwrapPenalty(amount) ==
    AsU64(Div(Mul(amount, N(factory_state.early_unwrap_penalty_bps)),
              BPS_DENOMINATOR))

\* early_unwrap::handler
early_unwrap(s, amount) ==
    /\ UNCHANGED <<ivars, tvars, pvars, gvars>>
    /\ LET penalty_amount == UnwrapPenalty(amount)
           amount_after_penalty == Sub(amount, penalty_amount)
       IN  /\ Ge(amount, penalty_amount)
           /\ Ge(user_sector_token_account[s], amount)
           /\ Ge(pool_twist_vault, amount)
           /\ user_sector_token_account' =
                  [user_sector_token_account EXCEPT ![s] = Sub(@, amount)]
           /\ staker_twist_account' =
                  [staker_twist_account EXCEPT ![s] = Add(@, amount_after_penalty)]
           /\ pool_twist_vault' =
                  Sub(Sub(pool_twist_vault, amount_after_penalty), penalty_amount)
    /\ UNCHANGED <<factory_state, bond_pool, bond_position,
                   pool_sector_token_account, burn_source, clock>>

EarlyUnwrapInit ==
    /\ BondInit
    /\ user_sector_token_account = [s \in Stakers |-> UserSectorFunds(s)]
    /\ InfluencerInit /\ TokenInit

EarlyUnwrapNext ==
    \/ \E s \in Stakers : \E amount \in StakeChoices(s) : stake_in_pool(s, amount)
    \/ \E burn_amount \in UnwrapBurnAmounts : distribute_yield(burn_amount)
    \/ \E s \in Stakers : claim_rewards(s)
    \/ \E s \in Stakers : \E shares \in WithdrawChoices(s) : withdraw_stake(s, shares)
    \/ \E paused \in BOOLEAN : set_pool_paused(paused)
    \/ AdvanceClock
    \/ \E s \in Stakers : \E amount \in UnwrapAmounts : early_unwrap(s, amount)

EarlyUnwrapSpec == EarlyUnwrapInit /\ [][EarlyUnwrapNext]_vars

\* A bond pool whose stakers hold two minimum stakes and deposit one minimum
\* stake at a time, so that a staker with an open position still has the
\* funds of a further deposit.
RepeatStakerFunds(s) == Add(ONE_TWIST, ONE_TWIST)
RepeatStakeAmounts == {ONE_TWIST}

RepeatDepositInit ==
    /\ factory_state = FactoryInit
    /\ bond_pool = PoolInit
    /\ bond_position = << >>
    /\ staker_twist_account = [s \in Stakers |-> RepeatStakerFunds(s)]
    /\ pool_twist_vault = <<>>
    /\ pool_sector_token_account = <<>>
    /\ burn_source = N(VisitorFunds)
    /\ clock = GenesisTime
    /\ UserSectorInit /\ InfluencerInit /\ TokenInit

RepeatDepositNext ==
    \/ \E s \in Stakers : \E amount \in RepeatStakeAmounts : stake_in_pool(s, amount)
    \/ \E burn_amount \in BurnAmounts : distribute_yield(burn_amount)
    \/ \E s \in Stakers : claim_rewards(s)
    \/ \E s \in Stakers : \E shares \in WithdrawChoices(s) : withdraw_stake(s, shares)
    \/ \E paused \in BOOLEAN : set_pool_paused(paused)
    \/ AdvanceClock

RepeatDepositSpec == RepeatDepositInit /\ [][RepeatDepositNext]_vars

\* The stake vault as initialize leaves it, empty, under an owner who holds
\* two stakes: the vault then holds the staked principal and nothing else.
TwoStakeFunds == Add(ONE_TWIST, ONE_TWIST)
TwoStakeAmounts == {ONE_TWIST}
TwoStakeLockPeriods == {MIN_STAKE_PERIOD}

EmptyVaultInit ==
    /\ program_state = ProgramStateInit
    /\ circuit_breaker = CircuitBreakerStateInit
    /\ unix_timestamp = GenesisTime
    /\ stake_state = [o \in TokenOwners |-> StakeStateInit]
    /\ owner_token_account = [o \in TokenOwners |-> TwoStakeFunds]
    /\ stake_vault = <<>>
    /\ floor_treasury_vault = <<>>
    /\ mint_supply = Mul(N(NumTokenOwners), TwoStakeFunds)
    /\ BondInit /\ UserSectorInit /\ InfluencerInit /\ PidAtRest /\ GovernanceAtRest

EmptyVaultNext ==
    \/ \E owner \in TokenOwners : \E amount \in TwoStakeAmounts :
          \E lock_period \in TwoStakeLockPeriods : token_stake(owner, amount, lock_period)
    \/ \E owner \in TokenOwners : \E stake_index \in StakeIndexes :
          token_unstake(owner, stake_index)
    \/ \E owner \in TokenOwners : \E stake_index \in StakeIndexes :
          token_claim_rewards(owner, stake_index)
    \/ \E paused \in BOOLEAN : set_emergency_pause(paused)
    \/ TokenAdvanceClock

EmptyVaultSpec == EmptyVaultInit /\ [][EmptyVaultNext]_vars

\* One owner's entry seen second by second and day by day: the entry is
\* staked at GenesisTime with one of these amounts and lock periods.
PenaltyAmounts == {N(1), N(20000), ONE_TWIST}
PenaltyLockPeriods == {MIN_STAKE_PERIOD, 90 * DAY, MAX_STAKE_PERIOD}
PenaltyClockReadings ==
    {GenesisTime + offset : offset \in
        {0, 1, 2, DAY, 10 * DAY, 20 * DAY,
         30 * DAY - 1, 30 * DAY, 30 * DAY + 1, 90 * DAY}}

\* the accounts after owner 1's stake(amount, lock_period) at GenesisTime
PenaltyInit ==
    \E amount \in PenaltyAmounts : \E lock_period \in PenaltyLockPeriods :
        /\ program_state = [ProgramStateInit EXCEPT
               !.total_users = 1, !.total_stakes = 1, !.total_staked = amount]
        /\ stake_state = [o \in TokenOwners |->
               IF o = 1
               THEN [ is_initialized |-> TRUE,
                      total_staked |-> amount,
                      total_earned |-> <<>>,
                      stakes |-> << [ amount |-> amount,
                                      start_timestamp |-> GenesisTime,
                                      lock_period |-> lock_period,
                                      apy_bps |-> apy_of(lock_period),
                                      last_claim_timestamp |-> GenesisTime,
                                      total_earned |-> <<>>,
                                      withdrawn |-> FALSE ] >> ]
               ELSE StakeStateInit]
        /\ owner_token_account = [o \in TokenOwners |->
               IF o = 1 THEN Sub(OwnerFunds, amount) ELSE OwnerFunds]
        /\ stake_vault = Add(VaultReserve, amount)
        /\ floor_treasury_vault = <<>>
        /\ mint_supply = Add(VaultReserve, Mul(N(NumTokenOwners), OwnerFunds))
        /\ circuit_breaker = CircuitBreakerStateInit
        /\ unix_timestamp = GenesisTime
        /\ BondInit /\ UserSectorInit /\ InfluencerInit /\ PidAtRest /\ GovernanceAtRest

\* the Clock sysvar moves to a later reading
PenaltyAdvanceClock ==
    /\ UNCHANGED outside_token
    /\ \E now \in PenaltyClockReadings :
           now > unix_timestamp /\ unix_timestamp' = now
    /\ UNCHANGED <<program_state, stake_state, owner_token_account, stake_vault,
                   floor_treasury_vault, mint_supply, circuit_breaker>>

PenaltyNext ==
    \/ \E owner \in TokenOwners : \E stake_index \in StakeIndexes :
          token_unstake(owner, stake_index)
    \/ PenaltyAdvanceClock

PenaltySpec == PenaltyInit /\ [][PenaltyNext]_vars


-----------------------------------------------------------------------------
(* Bond pool factory: the two pending-reward methods.                      *)

\* C13: for every position the share-method and the integral-method pending
\* rewards are both defined and non-negative, and they differ by no more
\* than the two units that rounding down each of them can cost.
C13_MethodsAgree ==
    \A s \in DOMAIN bond_position :
        LET by_share == SharePending(bond_position[s], bond_pool)
            by_integral == calculate_pending_rewards_integral(bond_position[s], bond_pool)
        IN  /\ by_integral # "MathOverflow"
            /\ Le(by_share, Add(by_integral, N(2)))
            /\ Le(by_integral, Add(by_share, N(2)))

\* an overflow, underflow or truncation occurs while the pending reward of
\* `position` is computed by either method
PendingOverflows(position, pool) ==
    LET product == Mul(position.shares, pool.reward_per_share)
        accumulated == Div(product, PRECISION)
    IN  \/ ~FitsU128(product)
        \/ Lt(accumulated, position.reward_debt)
        \/ ~FitsU64(Sub(accumulated, position.reward_debt))
        \/ calculate_pending_rewards_integral(position, pool) = "MathOverflow"

\* C14: when computing a position's pending reward overflows, a claim_rewards
\* or withdraw_stake on that position fails and changes nothing.
C14_OverflowFailsOperation ==
    [][\A s \in DOMAIN bond_position :
        (/\ bvars' # bvars
         /\ bond_position' # bond_position
         /\ PendingOverflows(bond_position[s], bond_pool))
           => /\ ~claim_rewards(s)
              /\ ~ \E shares \in WithdrawChoices(s) : withdraw_stake(s, shares)
      ]_bvars

-----------------------------------------------------------------------------
(* Influencer staking: properties.                                         *)

\* number of stake accounts that hold principal
OpenStakeAccounts == {s \in DOMAIN stake_account : ~IsZero(stake_account[s].amount)}

\* C3: after a claim_rewards that paid a staker, a second claim_rewards of
\* the same staker with no distribute_rewards in between has nothing to pay.
C3_SecondInfluencerClaimPaysNothing ==
    [][\A s \in DOMAIN stake_account :
        (/\ stake_account'[s].total_claimed # stake_account[s].total_claimed
         /\ influencer_claim_rewards(s))
           => IsZero(TotalClaimable(stake_account'[s], staking_pool'))
      ]_ivars

\* C7: stake_on_influencer and unstake never lower an account's
\* pending_rewards; only the account's own claim_rewards lowers it.
C7_PendingRewardsKept ==
    [][\A s \in DOMAIN stake_account :
        Lt(stake_account'[s].pending_rewards, stake_account[s].pending_rewards)
            => influencer_claim_rewards(s)
      ]_ivars

\* C8: staker_count equals the number of stake accounts whose amount is
\* greater than zero.
C8_StakerCountMatches ==
    staking_pool.staker_count = N(Cardinality(OpenStakeAccounts))

-----------------------------------------------------------------------------
(* twist-token staking: properties.                                        *)

\* C15: once a stake entry is withdrawn it stays as it is: no later step
\* changes the entry, and unstake and claim_rewards on it fail, so nothing is
\* transferred or minted for it again.
C15_WithdrawnIsTerminal ==
    [][\A owner \in TokenOwners :
        \A stake_index \in DOMAIN stake_state[owner].stakes :
            stake_state[owner].stakes[stake_index].withdrawn =>
                /\ stake_state'[owner].stakes[stake_index]
                       = stake_state[owner].stakes[stake_index]
                /\ ~token_unstake(owner, stake_index)
                /\ ~token_claim_rewards(owner, stake_index)
      ]_tvars

\* an owner holds a withdrawn entry next to an active one, at a time later
\* than the withdrawal
C15_Witness ==
    \E owner \in TokenOwners :
        \E i, j \in DOMAIN stake_state[owner].stakes :
            /\ stake_state[owner].stakes[i].withdrawn
            /\ ~stake_state[owner].stakes[j].withdrawn
            /\ unix_timestamp > stake_state[owner].stakes[i].last_claim_timestamp


\* the penalty of an entry is 0 at and after its unlock timestamp
ZeroFromUnlock(stake) ==
    \A now \in PenaltyClockReadings :
        now >= stake.start_timestamp + stake.lock_period
            => IsZero(calculate_early_unstake_penalty(stake, now))

\* C17 as stated: between any two instants before the unlock the penalty of an
\* active entry strictly decreases, and it is 0 at and after the unlock.
C17_PenaltyStrictlyDecreasing ==
    [][\A owner \in TokenOwners :
        \A stake_index \in DOMAIN stake_state[owner].stakes :
            LET stake == stake_state[owner].stakes[stake_index]
            IN  (/\ unix_timestamp' > unix_timestamp
                 /\ ~stake.withdrawn
                 /\ ~is_unlocked(stake, unix_timestamp))
                    => /\ Gt(calculate_early_unstake_penalty(stake, unix_timestamp),
                             calculate_early_unstake_penalty(stake, unix_timestamp'))
                       /\ ZeroFromUnlock(stake)
      ]_tvars

\* C17, amended: as time passes the penalty of an active entry never grows,
\* it is smaller at every later instant that is at least a day later and
\* before the unlock when the stake is at least 20000 base units, and it is 0
\* at and after the unlock.
C17_PenaltyNonIncreasing ==
    [][\A owner \in TokenOwners :
        \A stake_index \in DOMAIN stake_state[owner].stakes :
            LET stake == stake_state[owner].stakes[stake_index]
                before == calculate_early_unstake_penalty(stake, unix_timestamp)
                after == calculate_early_unstake_penalty(stake, unix_timestamp')
            IN  (/\ unix_timestamp' > unix_timestamp
                 /\ ~stake.withdrawn
                 /\ ~is_unlocked(stake, unix_timestamp))
                    => /\ Ge(before, after)
                       /\ (/\ unix_timestamp' >= unix_timestamp + DAY
                           /\ ~is_unlocked(stake, unix_timestamp')
                           /\ Ge(stake.amount, N(20000))) => Gt(before, after)
                       /\ ZeroFromUnlock(stake)
      ]_tvars

\* an active entry a second before its unlock, having been seen earlier when
\* its penalty was positive: the penalty has fallen to 0 before the unlock
C17_Witness ==
    \E owner \in TokenOwners :
        \E stake_index \in DOMAIN stake_state[owner].stakes :
            LET stake == stake_state[owner].stakes[stake_index]
            IN  /\ ~stake.withdrawn
                /\ unix_timestamp = stake.start_timestamp + stake.lock_period - 1
                /\ IsZero(calculate_early_unstake_penalty(stake, unix_timestamp))
                /\ ~IsZero(calculate_early_unstake_penalty(stake,
                                                           stake.start_timestamp))

-----------------------------------------------------------------------------
(* Early-exit penalties.                                                   *)

\* the TWIST held by the stakers and by the pool vault, the only TWIST
\* accounts early_unwrap is given
TwistHeld(accounts, pool_vault) ==
    Add(SumOver(DOMAIN accounts, accounts), pool_vault)

\* C16: an early exit's penalty is deducted from what the depositor gets back
\* and is moved to an account, never burned: in every early_unwrap the
\* depositor receives amount - penalty and no TWIST leaves the accounts.
C16_PenaltyNotBurned ==
    [][\A s \in Stakers : \A amount \in UnwrapAmounts :
        early_unwrap(s, amount) =>
            /\ staker_twist_account'[s] =
                   Add(staker_twist_account[s],
                       Sub(amount, UnwrapPenalty(amount)))
            /\ TwistHeld(staker_twist_account', pool_twist_vault')
                   = TwistHeld(staker_twist_account, pool_twist_vault)
      ]_vars

-----------------------------------------------------------------------------
(* twist-token circuit breaker: properties.                                *)

\* C18: the breaker goes from tripped to not tripped only in a step taken when
\* the cooldown of the severity it was tripped with has elapsed since the
\* trip.
C18_ResetOnlyAfterCooldown ==
    [][(program_state.circuit_breaker_active
        /\ ~program_state'.circuit_breaker_active)
          => unix_timestamp - circuit_breaker.last_trip_timestamp
                 >= get_cooldown_duration(circuit_breaker,
                                          circuit_breaker.last_trip_severity)
      ]_tvars

\* C19: while the breaker is tripped, the CircuitBreakerState changes only in
\* a step that resets the breaker.
C19_TrippedStateIsFrozen ==
    [][(program_state.circuit_breaker_active
        /\ circuit_breaker' # circuit_breaker)
          => ~program_state'.circuit_breaker_active
      ]_tvars

\* C20: a step that resets the breaker leaves emergency_pause false and
\* buyback_enabled true when the trip was Critical, and buyback_enabled true
\* when it was High.
C20_ResetRestoresFlags ==
    [][(program_state.circuit_breaker_active
        /\ ~program_state'.circuit_breaker_active)
          => /\ circuit_breaker.last_trip_severity = "Critical"
                  => /\ ~program_state'.emergency_pause
                     /\ program_state'.buyback_enabled
             /\ circuit_breaker.last_trip_severity = "High"
                  => program_state'.buyback_enabled
      ]_tvars

-----------------------------------------------------------------------------
(* Circuit-breaker signals: grading, selection and the effects of a trip.  *)

\* the measure a signal grades, as its check_* computes it from the snapshot
\* of `breaker`
SignalMagnitude(breaker, state, supply, condition) ==
    CASE condition = "PriceVolatility" ->
             LET diff == IF state.last_oracle_price > breaker.price_1h_ago
                         THEN state.last_oracle_price - breaker.price_1h_ago
                         ELSE breaker.price_1h_ago - state.last_oracle_price
             IN  N((diff * 10000) \div breaker.price_1h_ago)
      [] condition = "VolumeSpike" ->
             Div(state.volume_24h, breaker.volume_1h_ago)
      [] condition = "SupplyChange" ->
             LET change == IF Gt(supply, breaker.supply_24h_ago)
                           THEN Sub(supply, breaker.supply_24h_ago)
                           ELSE Sub(breaker.supply_24h_ago, supply)
             IN  Div(Mul(change, N(10000)), breaker.supply_24h_ago)
      [] condition = "LiquidityDrain" ->
             Div(Mul(Sub(breaker.liquidity_1h_ago, state.floor_liquidity),
                     N(10000)),
                 breaker.liquidity_1h_ago)

\* the base threshold of a signal
SignalThreshold(breaker, condition) ==
    CASE condition = "PriceVolatility" -> breaker.price_volatility_threshold_bps
      [] condition = "VolumeSpike" -> breaker.volume_spike_multiplier
      [] condition = "SupplyChange" -> breaker.supply_change_threshold_bps
      [] condition = "LiquidityDrain" -> breaker.liquidity_drain_threshold_bps

\* one grading for every signal: above three thresholds Critical, above two
\* High, above one Medium
UniformSeverity(magnitude, threshold) ==
    IF Gt(magnitude, N(threshold * 3)) THEN "Critical"
    ELSE IF Gt(magnitude, N(threshold * 2)) THEN "High"
    ELSE IF Gt(magnitude, N(threshold)) THEN "Medium"
    ELSE "None"

\* a step in which check_conditions_handler trips the breaker on a signal
SignalTrip ==
    /\ circuit_breaker'.trip_count = circuit_breaker.trip_count + 1
    /\ circuit_breaker'.last_trip_condition # "ManualTrigger"

SignalOrder ==
    <<"PriceVolatility", "VolumeSpike", "SupplyChange", "LiquidityDrain">>

\* the severity a signal's check returns
SignalSeverity(breaker, state, supply, condition) ==
    CASE condition = "PriceVolatility" ->
             check_price_volatility(breaker, state.last_oracle_price)
      [] condition = "VolumeSpike" ->
             check_volume_spike(breaker, state.volume_24h)
      [] condition = "SupplyChange" -> check_supply_change(breaker, supply)
      [] condition = "LiquidityDrain" ->
             check_liquidity_drain(breaker, state.floor_liquidity)

\* C22: an evaluation of a breaker that is not tripped, with a signal over its
\* threshold, trips it with the maximum severity among the signals and
\* records the condition of the first signal, in evaluation order, that has
\* that severity.
C22_MaximumSeverityFirstInOrder ==
    [][LET rank(i) ==
               severity_to_u8(SignalSeverity(circuit_breaker', program_state,
                                             mint_supply, SignalOrder[i]))
           signals == DOMAIN SignalOrder
       IN  (/\ check_conditions_handler
            /\ ~program_state.circuit_breaker_active
            /\ \E i \in signals : rank(i) > 0)
           => /\ SignalTrip
              /\ program_state'.circuit_breaker_active
              /\ \E i \in signals :
                     /\ circuit_breaker'.last_trip_condition = SignalOrder[i]
                     /\ severity_to_u8(circuit_breaker'.last_trip_severity)
                            = rank(i)
                     /\ \A j \in signals : rank(j) <= rank(i)
                     /\ \A j \in signals : j < i => rank(j) < rank(i)]_vars

\* the breaker tripped on the volume spike, with the liquidity drain at the
\* same severity, the supply change below it and the price quiet
C22_Witness ==
    /\ program_state.circuit_breaker_active
    /\ circuit_breaker.last_trip_condition = "VolumeSpike"
    /\ circuit_breaker.last_trip_severity = "High"
    /\ check_volume_spike(circuit_breaker, program_state.volume_24h) = "High"
    /\ check_liquidity_drain(circuit_breaker, program_state.floor_liquidity)
           = "High"
    /\ check_supply_change(circuit_breaker, mint_supply) = "Medium"
    /\ check_price_volatility(circuit_breaker, program_state.last_oracle_price)
           = "None"

\* C23: a trip with Critical severity sets emergency_pause and disables
\* buyback, a trip with High disables buyback and leaves emergency_pause as it
\* was, and a trip with Medium or Low changes neither flag.
C23_TripEffectsBySeverity ==
    [][circuit_breaker'.trip_count = circuit_breaker.trip_count + 1 =>
          /\ program_state'.circuit_breaker_active
          /\ CASE circuit_breaker'.last_trip_severity = "Critical" ->
                      /\ program_state'.emergency_pause
                      /\ ~program_state'.buyback_enabled
               [] circuit_breaker'.last_trip_severity = "High" ->
                      /\ program_state'.emergency_pause
                             = program_state.emergency_pause
                      /\ ~program_state'.buyback_enabled
               [] OTHER ->
                      /\ program_state'.emergency_pause
                             = program_state.emergency_pause
                      /\ program_state'.buyback_enabled
                             = program_state.buyback_enabled]_vars

\* the breaker tripped by hand with High severity while buyback was enabled:
\* buyback is off and the program is not paused
C23_Witness ==
    /\ program_state.circuit_breaker_active
    /\ circuit_breaker.trip_count = 1
    /\ circuit_breaker.last_trip_condition = "ManualTrigger"
    /\ circuit_breaker.last_trip_severity = "High"
    /\ ~program_state.buyback_enabled
    /\ ~program_state.emergency_pause

-----------------------------------------------------------------------------
(* PID supply control.                                                     *)

\* a step in which execute_pid_control adjusts the supply
Adjusts == pid_controller'.adjustment_count = pid_controller.adjustment_count + 1

\* the tokens that are `rate_bps` basis points of `supply`, rounded down
RateOf(supply, rate_bps) == Div(Mul(supply, N(rate_bps)), N(10000))

\* C24: the tokens an adjustment burns are at most max_burn_rate_bps, and the
\* tokens it mints at most max_mint_rate_bps, of the supply before it, and
\* the mint's supply moves by just the recorded amount.
C24_AdjustmentWithinRate ==
    [][Adjusts =>
          IF pid_controller'.last_adjustment_type = "Burn"
          THEN /\ Le(pid_controller'.last_adjustment_amount,
                     RateOf(mint_supply, pid_controller.max_burn_rate_bps))
               /\ mint_supply' =
                      Sub(mint_supply, pid_controller'.last_adjustment_amount)
          ELSE /\ pid_controller'.last_adjustment_type = "Mint"
               /\ Le(pid_controller'.last_adjustment_amount,
                     RateOf(mint_supply, pid_controller.max_mint_rate_bps))
               /\ mint_supply' =
                      Add(mint_supply, pid_controller'.last_adjustment_amount)]_vars

\* one burn made, of exactly max_burn_rate_bps of the supply before it: the
\* rate limit cut the output
C24_Witness ==
    /\ pid_controller.adjustment_count = 1
    /\ pid_controller.last_adjustment_type = "Burn"
    /\ pid_controller.max_burn_rate_bps < pid_controller.output_max
    /\ pid_controller.last_adjustment_amount =
           RateOf(Add(mint_supply, pid_controller.last_adjustment_amount),
                  pid_controller.max_burn_rate_bps)

\* what every execute_pid_control leaves as it was
ExecuteFrame == UNCHANGED <<program_state, unix_timestamp, circuit_breaker>>

\* the execute of this step finds the cooldown not yet elapsed
TooSoon ==
    unix_timestamp - pid_controller.last_adjustment_timestamp
        < pid_controller.adjustment_cooldown

\* the checks execute_handler makes before the cooldown check pass
Admitted ==
    /\ ~program_state.circuit_breaker_active
    /\ ~program_state.emergency_pause
    /\ program_state.last_oracle_price > 0
    /\ unix_timestamp - program_state.last_oracle_update
           <= 2 * ORACLE_STALENESS_THRESHOLD

TokensMove(executor, adjustment) ==
    /\ adjustment.adjustment_type = "Burn" =>
           Ge(owner_token_account[executor], adjustment.amount)
    /\ adjustment.adjustment_type = "Mint" =>
           FitsU64(Add(mint_supply, adjustment.amount))

\* a step leaves the controller's parameters as they are, as every step of
\* execute_handler does
ParametersKept ==
    \A field \in {"kp", "ki", "kd", "target_price", "price_tolerance_bps",
                   "max_mint_rate_bps", "max_burn_rate_bps", "adjustment_cooldown",
                   "integral_min", "integral_max", "output_min", "output_max"} :
        pid_controller'[field] = pid_controller[field]

C27_IntegralWithinLimits ==
    /\ SignedLe(pid_controller.integral_min, pid_controller.integral)
    /\ SignedLe(pid_controller.integral, pid_controller.integral_max)

\* C28: an adjustment whose clamped output is positive burns, and one whose
\* clamped output is negative mints, the share of the supply that is the
\* smaller of the output's magnitude and the burn rate or the mint rate
\* respectively.
C28_SignSelectsBurnOrMint ==
    [][Adjusts =>
          \E output_bps \in
                 {clamped_output(pid_controller,
                      pid_controller.target_price
                          - program_state.last_oracle_price,
                      unix_timestamp)} :
              /\ output_bps > 0 =>
                     /\ pid_controller'.last_adjustment_type = "Burn"
                     /\ pid_controller'.last_adjustment_amount =
                            IF output_bps < pid_controller.max_burn_rate_bps
                            THEN RateOf(mint_supply, output_bps)
                            ELSE RateOf(mint_supply,
                                        pid_controller.max_burn_rate_bps)
                     /\ pid_controller'.total_burned =
                            Add(pid_controller.total_burned,
                                pid_controller'.last_adjustment_amount)
                     /\ pid_controller'.total_minted = pid_controller.total_minted
              /\ output_bps < 0 =>
                     /\ pid_controller'.last_adjustment_type = "Mint"
                     /\ pid_controller'.last_adjustment_amount =
                            IF 0 - output_bps < pid_controller.max_mint_rate_bps
                            THEN RateOf(mint_supply, 0 - output_bps)
                            ELSE RateOf(mint_supply,
                                        pid_controller.max_mint_rate_bps)
                     /\ pid_controller'.total_minted =
                            Add(pid_controller.total_minted,
                                pid_controller'.last_adjustment_amount)
                     /\ pid_controller'.total_burned = pid_controller.total_burned]_vars

\* a burn after a mint: both signs of the output have come about
C28_Witness ==
    /\ pid_controller.adjustment_count = 2
    /\ pid_controller.last_adjustment_type = "Burn"
    /\ ~IsZero(pid_controller.last_adjustment_amount)
    /\ ~IsZero(pid_controller.total_minted)

\* C29 as stated: with |target_price - current_price| below the fraction
\* price_tolerance_bps / 10000 of target_price, execute_pid_control changes
\* neither the controller nor any token amount.
C29_DeadBandByExactFraction ==
    [][\A executor \in TokenOwners :
           (/\ Abs(pid_controller.target_price
                       - program_state.last_oracle_price) * 10000
                   < pid_controller.target_price
                         * pid_controller.price_tolerance_bps
            /\ ExecuteFrame
            /\ execute_handler(executor))
           => UNCHANGED <<pid_controller, mint_supply, owner_token_account>>]_vars

\* C29: with |target_price - current_price| below target_price *
\* price_tolerance_bps / 10000 rounded down to a whole price unit,
\* execute_pid_control changes neither the controller (integral,
\* previous_error, both timestamps, totals) nor any token amount, and it
\* succeeds when the checks before the dead band pass.
C29_DeadBandIsNoOp ==
    [][\A executor \in TokenOwners :
           (/\ Abs(pid_controller.target_price
                       - program_state.last_oracle_price)
                   < (pid_controller.target_price
                          * pid_controller.price_tolerance_bps) \div 10000
            /\ ExecuteFrame
            /\ execute_handler(executor))
           => /\ UNCHANGED <<pid_controller, mint_supply, owner_token_account>>
              /\ (Admitted /\ ~TooSoon) => execute_result' = "Ok"]_vars

\* an execute inside the dead band succeeded after an earlier adjustment and
\* past its cooldown, and the controller still carries that adjustment's
\* timestamps
C29_Witness ==
    /\ execute_result = "Ok"
    /\ pid_controller.adjustment_count = 1
    /\ unix_timestamp - pid_controller.last_adjustment_timestamp
           >= pid_controller.adjustment_cooldown
    /\ unix_timestamp > pid_controller.last_update_timestamp
    /\ program_state.last_oracle_update = unix_timestamp
    /\ Abs(pid_controller.target_price - program_state.last_oracle_price)
           < (pid_controller.target_price
                  * pid_controller.price_tolerance_bps) \div 10000

\* a deposit of `amount` by s that the pool, the factory and the staker's
\* wallet all admit
DepositAdmitted(s, amount) ==
    /\ bond_pool.active /\ ~bond_pool.finalized /\ ~bond_pool.paused
    /\ ~factory_state.paused
    /\ Ge(amount, bond_pool.min_stake_amount)
    /\ Ge(staker_twist_account[s], amount)

\* C30: a staker with an open bond position can deposit again into the same
\* pool: whenever the pool, the factory and the staker's wallet admit the
\* deposit, stake_in_pool accepts it from a staker whose position is open
\* (and would then add it to the position's amount_staked and shares).
C30_OpenPositionTakesFurtherDeposit ==
    \A s \in DOMAIN bond_position : \A amount \in RepeatStakeAmounts :
        DepositAdmitted(s, amount) => StakeResult(s, amount) = "Ok"

\* C31: after any sequence of stake_in_pool, distribute_yield, claim_rewards,
\* withdraw_stake and early_unwrap, the pool's TWIST vault holds at least
\* pool.total_staked, the principal of the remaining positions.
C31_VaultCoversPrincipal ==
    Ge(pool_twist_vault, bond_pool.total_staked)

\* what claim_rewards has paid out of the rewards treasury so far
InfluencerPaidOut == Sub(N(TreasuryFunds), rewards_treasury)

\* C32: in the influencer staking pool the total paid out by claim_rewards
\* over all stakers never exceeds total_rewards_distributed.
C32_PaidWithinDistributed ==
    Le(InfluencerPaidOut, staking_pool.total_rewards_distributed)

RECURSIVE SumOpenStakes(_)
\* the amounts of the entries of `stakes` that are not withdrawn, summed
SumOpenStakes(stakes) ==
    IF stakes = << >> THEN <<>>
    ELSE Add(IF Head(stakes).withdrawn THEN <<>> ELSE Head(stakes).amount,
             SumOpenStakes(Tail(stakes)))

RECURSIVE SumOpenStakesOf(_)
\* the same over the stake states of a set of owners
SumOpenStakesOf(owners) ==
    IF owners = {} THEN <<>>
    ELSE LET o == CHOOSE o \in owners : TRUE
         IN  Add(SumOpenStakes(stake_state[o].stakes), SumOpenStakesOf(owners \ {o}))

\* C33: the stake vault's balance is at least the sum of the amounts of all
\* stake entries that are not withdrawn.
C33_VaultCoversOpenStakes ==
    Ge(stake_vault, SumOpenStakesOf(TokenOwners))

\* C34: a bond position's principal cannot be withdrawn before its unlock
\* time: every position's unlock_timestamp is its stake time plus the pool's
\* lock_duration, and a step that closes a position or lowers
\* pool.total_staked is taken at or after the unlock_timestamp of the
\* position it pays.
C34_NoWithdrawalBeforeUnlock ==
    [][/\ \A s \in DOMAIN bond_position' :
              bond_position'[s].unlock_timestamp
                  = bond_position'[s].stake_timestamp + bond_pool'.lock_duration
       /\ (DOMAIN bond_position' # DOMAIN bond_position \cup DOMAIN bond_position'
              \/ Lt(bond_pool'.total_staked, bond_pool.total_staked))
            => \E s \in DOMAIN bond_position \ DOMAIN bond_position' :
                  /\ clock >= bond_position[s].unlock_timestamp
                  /\ Gt(staker_twist_account'[s], staker_twist_account[s])
      ]_bvars

\* a position staked when the pool opened has been withdrawn at its unlock
\* time while another, staked at that time, is still locked
C34_Witness ==
    /\ Gt(factory_state.total_value_locked, factory_state.current_tvl)
    /\ \E s \in DOMAIN bond_position : ~can_withdraw(bond_position[s], clock)
    /\ clock = GenesisTime + bond_pool.lock_duration

\* C35: no PID mint or burn is executed while circuit_breaker_active or
\* emergency_pause is set: a step that changes the mint's supply, the
\* executor's tokens or the controller's totals starts in a state with
\* neither flag set.
C35_NoAdjustmentWhileHalted ==
    [][(\/ mint_supply' # mint_supply
        \/ owner_token_account' # owner_token_account
        \/ pid_controller'.total_minted # pid_controller.total_minted
        \/ pid_controller'.total_burned # pid_controller.total_burned
        \/ pid_controller'.adjustment_count # pid_controller.adjustment_count)
          => /\ ~program_state.circuit_breaker_active
             /\ ~program_state.emergency_pause
      ]_vars

\* after an adjustment, an execute whose cooldown has passed and whose oracle
\* price is fresh and outside the dead band is refused for the pause alone
C35_Witness ==
    /\ execute_result = "EmergencyPauseActive"
    /\ program_state.emergency_pause /\ ~program_state.circuit_breaker_active
    /\ pid_controller.adjustment_count > 0
    /\ cooldown_elapsed(pid_controller, unix_timestamp)
    /\ ~oracle_stale(program_state, unix_timestamp)
    /\ ~within_tolerance(pid_controller,
            pid_controller.target_price - program_state.last_oracle_price)

\* the members among the signers of a transaction, counted once each
DistinctMemberSigners(transaction, config) ==
    Cardinality({transaction.signers[k] : k \in DOMAIN transaction.signers}
                    \cap config.members)

\* C36: a multisig transaction's instruction is invoked at most once, and only
\* when the transaction is neither executed nor cancelled, carries signatures
\* of at least threshold distinct members and the time is at or after its
\* eta; an executed or cancelled transaction is changed by no further
\* approval, execution or cancellation.
C36_ExecutedOnceWhenApproved ==
    [][\A i \in DOMAIN multisig_transaction :
        /\ invoked'[i] <= 1
        /\ invoked'[i] # invoked[i]
              => /\ ~multisig_transaction[i].executed
                 /\ ~multisig_transaction[i].cancelled
                 /\ DistinctMemberSigners(multisig_transaction[i], multisig_config)
                        >= multisig_config.threshold
                 /\ unix_timestamp >= multisig_transaction[i].eta
                 /\ multisig_transaction'[i].executed
        /\ (multisig_transaction[i].executed \/ multisig_transaction[i].cancelled)
              => /\ multisig_transaction'[i] = multisig_transaction[i]
                 /\ invoked'[i] = invoked[i]
      ]_vars

\* a transaction proposed with a delay was approved to the threshold before
\* its eta and executed once the eta was reached
C36_Witness ==
    \E i \in DOMAIN multisig_transaction :
        /\ multisig_transaction[i].executed
        /\ invoked[i] = 1
        /\ multisig_transaction[i].eta > multisig_transaction[i].created_at
        /\ multisig_transaction[i].executed_at >= multisig_transaction[i].eta
        /\ signature_count(multisig_transaction[i]) >= multisig_config.threshold

\* C37: after a revocation the amount that had vested but was not released,
\* which the revocation left in the vault, can be released to the beneficiary.
C37_VestedRemainsReleasable ==
    \A b \in DOMAIN vesting_schedule :
        (vesting_schedule[b].revoked /\ ~IsZero(vesting_vault[b]))
            => ReleaseResult(b) = "Ok"

\* C38: for every vesting schedule released_amount is at most the amount
\* vested at the current time, which is at most total_amount, and before
\* cliff_timestamp nothing has been released or paid to the beneficiary.
C38_ReleasedWithinVested ==
    \A b \in DOMAIN vesting_schedule :
        /\ ~calculate_vested_amount(vesting_schedule[b], unix_timestamp).err
        /\ Le(vesting_schedule[b].released_amount,
              calculate_vested_amount(vesting_schedule[b], unix_timestamp).amount)
        /\ Le(calculate_vested_amount(vesting_schedule[b], unix_timestamp).amount,
              vesting_schedule[b].total_amount)
        /\ unix_timestamp < vesting_schedule[b].cliff_timestamp
              => /\ IsZero(vesting_schedule[b].released_amount)
                 /\ IsZero(beneficiary_token_account[b])

\* a schedule partly released, with more vested since and not yet all of it
C38_Witness ==
    \E b \in DOMAIN vesting_schedule :
        /\ ~vesting_schedule[b].revoked
        /\ ~IsZero(vesting_schedule[b].released_amount)
        /\ beneficiary_token_account[b] = vesting_schedule[b].released_amount
        /\ Lt(vesting_schedule[b].released_amount,
              calculate_vested_amount(vesting_schedule[b], unix_timestamp).amount)
        /\ Lt(calculate_vested_amount(vesting_schedule[b], unix_timestamp).amount,
              vesting_schedule[b].total_amount)

\* C39: the website's daily_burn_amount never exceeds
\* daily_burn_limit_per_site and is the sum of the burns processed since
\* last_daily_reset: a processed burn adds its amount to the counter, or, with
\* at least 86400 seconds gone since last_daily_reset, starts the counter
\* again at its amount; no other step lowers the counter or moves
\* last_daily_reset.
C39_DailyBurnWithinLimit ==
    [][/\ Le(website'.daily_burn_amount, vau_processor'.daily_burn_limit_per_site)
       /\ \/ /\ website'.last_daily_reset = website.last_daily_reset
             /\ website'.daily_burn_amount
                  = Add(website.daily_burn_amount,
                        Sub(vau_processor'.total_twist_burned,
                            vau_processor.total_twist_burned))
          \/ /\ clock - website.last_daily_reset >= 86400
             /\ website'.last_daily_reset = clock
             /\ ~IsZero(Sub(vau_processor'.total_twist_burned,
                            vau_processor.total_twist_burned))
             /\ website'.daily_burn_amount
                  = Sub(vau_processor'.total_twist_burned,
                        vau_processor.total_twist_burned)
      ]_vars

\* the counter stands at the limit after a daily reset, more than the limit
\* having been burned for the website in all
C39_Witness ==
    /\ website.daily_burn_amount = vau_processor.daily_burn_limit_per_site
    /\ website.last_daily_reset >= website.registered_at + 86400
    /\ Gt(website.total_twist_burned, vau_processor.daily_burn_limit_per_site)
    /\ website.total_twist_burned = vau_processor.total_twist_burned

====
